---- MODULE Spec2Model ----
(***************************************************************************)
(* mongoose-seeder: a model of index.js.                                   *)
(*                                                                         *)
(* JavaScript values are tagged records:                                   *)
(*   [t |-> "undef"]            undefined                                  *)
(*   [t |-> "str", s |-> ...]   a string                                   *)
(*   [t |-> "num", n |-> ...]   a number                                   *)
(*   [t |-> "bool", b |-> ...]  a boolean                                  *)
(*   [t |-> "oid", n |-> ...]   a bson ObjectId instance (an object that   *)
(*                              has no property of its own called _id)     *)
(*   [t |-> "arr", a |-> ...]   an array, a sequence of values             *)
(*   [t |-> "obj", p |-> ...]   an object: the sequence of its own         *)
(*                              properties [k, v] in Object.keys order     *)
(*   [t |-> "throw", e |-> ...] not a value: the evaluation threw e        *)
(***************************************************************************)
EXTENDS Integers, Sequences, FiniteSets, TLC

Undef == [t |-> "undef"]
Str(s) == [t |-> "str", s |-> s]
Num(n) == [t |-> "num", n |-> n]
Bool(b) == [t |-> "bool", b |-> b]
ObjectId(n) == [t |-> "oid", n |-> n]
Arr(a) == [t |-> "arr", a |-> a]
Obj(p) == [t |-> "obj", p |-> p]
Prop(k, v) == [k |-> k, v |-> v]
Throw(e) == [t |-> "throw", e |-> e]

Thrown(v) == v.t = "throw"

\* The error classes of a run.
ReferenceNotFound == "ReferenceNotFound"
PropertyNotFound == "PropertyNotFound"
MissingIdentifier == "MissingIdentifier"
MissingModelError == "MissingModelError"
UnknownModelError == "UnknownModelError"
DependencyNotFound == "MODULE_NOT_FOUND"
BackendOperationError == "BackendOperationError"

(***************************************************************************)
(* Property access and the lodash predicates the code uses.                *)
(***************************************************************************)

\* Object.keys(o)
Keys(o) == [i \in 1..Len(o.p) |-> o.p[i].k]

HasKey(o, key) == o.t = "obj" /\ \E i \in 1..Len(o.p) : o.p[i].k = key

\* o[key] for a value that is neither undefined nor null.
Lookup(o, key) ==
    IF o.t = "obj" /\ HasKey(o, key)
    THEN o.p[CHOOSE i \in 1..Len(o.p) : o.p[i].k = key].v
    ELSE Undef

\* o[key]: reading a property of undefined throws a TypeError.
Get(o, key) == IF o.t = "undef" THEN Throw(PropertyNotFound) ELSE Lookup(o, key)

\* o[key] = v: an existing property keeps its place, a new one is appended.
Put(o, key, v) ==
    IF HasKey(o, key)
    THEN Obj([i \in 1..Len(o.p) |-> IF o.p[i].k = key THEN Prop(key, v) ELSE o.p[i]])
    ELSE Obj(Append(o.p, Prop(key, v)))

\* delete o[key]
Delete(o, key) == Obj(SelectSeq(o.p, LAMBDA q : q.k # key))

\* !v
Falsy(v) ==
    \/ v.t = "undef"
    \/ v.t = "str" /\ v.s = ""
    \/ v.t = "num" /\ v.n = 0
    \/ v.t = "bool" /\ ~v.b

isObject(v) == v.t \in {"obj", "arr", "oid"}
isArray(v) == v.t = "arr"
isPlainObject(v) == v.t = "obj"
isString(v) == v.t = "str"

(***************************************************************************)
(* Strings.                                                                *)
(***************************************************************************)

\* value.indexOf(prefix) === 0
StartsWith(s, prefix) == Len(s) >= Len(prefix) /\ SubSeq(s, 1, Len(prefix)) = prefix

\* value.substr(n)
substr(s, n) == SubSeq(s, n + 1, Len(s))

RECURSIVE indexOfDot(_, _)
\* The position of the first dot of s at or after position i, 0 if none.
indexOfDot(s, i) ==
    IF i > Len(s) THEN 0
    ELSE IF SubSeq(s, i, i) = "." THEN i
    ELSE indexOfDot(s, i + 1)

RECURSIVE split(_)
\* ref.split('.'): the pieces between the dots, empty pieces included.
split(s) ==
    LET d == indexOfDot(s, 1)
    IN  IF d = 0 THEN <<s>>
        ELSE <<SubSeq(s, 1, d - 1)>> \o split(SubSeq(s, d + 1, Len(s)))

RECURSIVE replaceThisOnce(_)
\* replaceThis without the g flag: only the first "this." is replaced.
replaceThisOnce(s) ==
    IF Len(s) < 5 THEN s
    ELSE IF SubSeq(s, 1, 5) = "this." THEN "_this." \o SubSeq(s, 6, Len(s))
    ELSE SubSeq(s, 1, 1) \o replaceThisOnce(SubSeq(s, 2, Len(s)))

RECURSIVE replaceThis(_)
\* text.replace(/this\./g, '_this.')
replaceThis(s) ==
    IF Len(s) < 5 THEN s
    ELSE IF SubSeq(s, 1, 5) = "this." THEN "_this." \o replaceThis(SubSeq(s, 6, Len(s)))
    ELSE SubSeq(s, 1, 1) \o replaceThis(SubSeq(s, 2, Len(s)))

(***************************************************************************)
(* _findReference: the value a reference names in the result store.        *)
(***************************************************************************)

RECURSIVE WalkKeysShort(_, _)
\* WalkKeys leaving the last segment of the path unread: while(keys.length > 1)
WalkKeysShort(result, keys) ==
    IF Len(keys) <= 1 \/ Head(keys) = "" THEN result
    ELSE LET next == Get(result, Head(keys))
         IN  IF Thrown(next) THEN next ELSE WalkKeysShort(next, Tail(keys))

RECURSIVE WalkKeys(_, _)
\* while((key = keys.shift())) result = result[key];
\* the loop ends at the end of the path and at an empty segment.
WalkKeys(result, keys) ==
    IF keys = <<>> \/ Head(keys) = "" THEN result
    ELSE LET next == Get(result, Head(keys))
         IN  IF Thrown(next) THEN next ELSE WalkKeys(next, Tail(keys))

\* IdentifierOf without the array test: _.isObject(result) alone.
IdentifierOfAnyObject(result) ==
    IF isObject(result)
    THEN IF Falsy(Lookup(result, "_id"))
         THEN Throw(MissingIdentifier)
         ELSE Lookup(result, "_id")
    ELSE result

\* The object test and the identifier lookup that end _findReference.
IdentifierOf(result) ==
    IF isObject(result) /\ ~isArray(result)
    THEN IF Falsy(Lookup(result, "_id"))
         THEN Throw(MissingIdentifier)
         ELSE Lookup(result, "_id")
    ELSE result

_findReference(ref, store) ==
    LET keys == split(ref)
        result == Lookup(store, Head(keys))
    IN  IF Falsy(result)
        THEN Throw(ReferenceNotFound)
        ELSE LET walked == WalkKeys(result, Tail(keys))
             IN  IF Thrown(walked) THEN walked ELSE IdentifierOf(walked)

(***************************************************************************)
(* Expressions: the script engine, on the expression texts of the fixtures.*)
(***************************************************************************)

\* toStr of the operand of a string concatenation.
toStr(v) ==
    CASE v.t = "str" -> v.s
      [] v.t = "undef" -> "undefined"
      [] OTHER -> "[object]"

\* vm.runInContext(code, ctx): the value of the script, or what it throws.
runInContext(code, ctx) ==
    CASE code = "1+1" -> Num(2)
      [] code = "_this.firstName + ' ' + _this.name" ->
            Str(toStr(Lookup(Lookup(ctx, "_this"), "firstName")) \o " "
                \o toStr(Lookup(Lookup(ctx, "_this"), "name")))
      [] code = "_this.email + ' ' + _this.name" ->
            Str(toStr(Lookup(Lookup(ctx, "_this"), "email")) \o " "
                \o toStr(Lookup(Lookup(ctx, "_this"), "name")))
      [] code = "moment" ->
            IF HasKey(ctx, "moment") THEN Lookup(ctx, "moment") ELSE Throw("ReferenceError")
      [] code = "firstName + ' ' + name" -> Throw("ReferenceError")
      [] code = "_this.ref" -> Lookup(Lookup(ctx, "_this"), "ref")
      [] code = "_this.sum" -> Lookup(Lookup(ctx, "_this"), "sum")
      [] code = "_this.nosuch.x" ->
            LET inner == Lookup(Lookup(ctx, "_this"), "nosuch")
            IN  IF inner = Undef THEN Throw("TypeError") ELSE Lookup(inner, "x")
      [] OTHER -> Throw("SyntaxError")

\* objectAssign(base, sandbox): the properties of sandbox are copied onto base.
objectAssign(base, sandbox) ==
    IF sandbox.t # "obj" THEN base
    ELSE Obj([i \in 1..Len(base.p) |->
                 IF HasKey(sandbox, base.p[i].k)
                 THEN Prop(base.p[i].k, Lookup(sandbox, base.p[i].k))
                 ELSE base.p[i]]
             \o SelectSeq(sandbox.p, LAMBDA q : ~HasKey(base, q.k)))

(***************************************************************************)
(* _unwind and _parseValue: a record with its references and expressions   *)
(* resolved, or the error the resolution threw.                            *)
(***************************************************************************)

\* The first throw of a sequence of evaluations made in order.
FirstThrown(vs) ==
    vs[CHOOSE i \in 1..Len(vs) : Thrown(vs[i]) /\ \A j \in 1..(i - 1) : ~Thrown(vs[j])]

AnyThrown(vs) == \E i \in 1..Len(vs) : Thrown(vs[i])

RECURSIVE _parseValue(_, _, _, _)
RECURSIVE _unwind(_, _, _)

\* _unwind evaluating the expressions of a record against the record with
\* its other fields resolved, and not against the record as declared.
_unwindResolvedParent(obj, store, sandbox) ==
    LET IsExpr(v) == isString(v) /\ StartsWith(v.s, "=")
        first == [i \in 1..Len(obj.p) |->
                     IF IsExpr(obj.p[i].v) THEN obj.p[i].v
                     ELSE _parseValue(obj, obj.p[i].v, store, sandbox)]
        parent == IF AnyThrown(first) THEN obj
                  ELSE Obj([i \in 1..Len(obj.p) |-> Prop(obj.p[i].k, first[i])])
        vs == [i \in 1..Len(obj.p) |-> _parseValue(parent, obj.p[i].v, store, sandbox)]
    IN  IF AnyThrown(first) THEN FirstThrown(first)
        ELSE IF AnyThrown(vs) THEN FirstThrown(vs)
        ELSE Obj([i \in 1..Len(obj.p) |-> Prop(obj.p[i].k, vs[i])])

RECURSIVE InPlace(_, _, _, _)
\* The record obj after its fields from number i on were resolved one after
\* the other, each written back before the next is resolved.
InPlace(obj, i, store, sandbox) ==
    IF Thrown(obj) \/ i > Len(obj.p) THEN obj
    ELSE LET v == _parseValue(obj, obj.p[i].v, store, sandbox)
         IN  IF Thrown(v) THEN v
             ELSE InPlace(Obj([obj.p EXCEPT ![i] = Prop(obj.p[i].k, v)]), i + 1, store, sandbox)

\* _unwind resolving the record in place: obj[key] = _parseValue(obj, value)
\* for every key, so that a field sees the resolved values of the fields
\* before it.
_unwindInPlace(obj, store, sandbox) == InPlace(obj, 1, store, sandbox)

\* Lines 130-134: _.mapValues(obj, ...) builds a new object, and every value
\* is parsed with obj itself, as declared, as its parent.
_unwind(obj, store, sandbox) ==
    LET vs == [i \in 1..Len(obj.p) |-> _parseValue(obj, obj.p[i].v, store, sandbox)]
    IN  IF AnyThrown(vs) THEN FirstThrown(vs)
        ELSE Obj([i \in 1..Len(obj.p) |-> Prop(obj.p[i].k, vs[i])])

\* _parseValue without the catch of lines 170-172: what the evaluation of an
\* expression throws leaves _parseValue.
_parseValueNoCatch(parent, value, store, sandbox) ==
    IF isPlainObject(value) THEN _unwind(value, store, sandbox)
    ELSE IF isArray(value) THEN
        LET vs == [i \in 1..Len(value.a) |-> _parseValue(parent, value.a[i], store, sandbox)]
        IN  IF AnyThrown(vs) THEN FirstThrown(vs) ELSE Arr(vs)
    ELSE IF isString(value) /\ StartsWith(value.s, "=") THEN
        runInContext(replaceThis(substr(value.s, 1)),
                     objectAssign(Obj(<<Prop("_this", parent)>>), sandbox))
    ELSE IF isString(value) /\ StartsWith(value.s, "->") THEN
        _findReference(substr(value.s, 2), store)
    ELSE value

\* _parseValue testing _.isObject in the place of _.isPlainObject at line
\* 145: a sequence is an object too, and is resolved as a mapping from its
\* indexes to its elements.
_parseValueIsObject(parent, value, store, sandbox) ==
    IF isPlainObject(value) THEN _unwind(value, store, sandbox)
    ELSE IF isArray(value) THEN
        _unwind(Obj([i \in 1..Len(value.a) |-> Prop(<<"0", "1", "2", "3">>[i], value.a[i])]),
                store, sandbox)
    ELSE IF isString(value) /\ StartsWith(value.s, "=") THEN
        LET out == runInContext(replaceThis(substr(value.s, 1)),
                                objectAssign(Obj(<<Prop("_this", parent)>>), sandbox))
        IN  IF Thrown(out) THEN value ELSE out
    ELSE IF isString(value) /\ StartsWith(value.s, "->") THEN
        _findReference(substr(value.s, 2), store)
    ELSE value

\* Lines 144-179.
_parseValue(parent, value, store, sandbox) ==
    IF isPlainObject(value) THEN _unwind(value, store, sandbox)
    ELSE IF isArray(value) THEN
        LET vs == [i \in 1..Len(value.a) |-> _parseValue(parent, value.a[i], store, sandbox)]
        IN  IF AnyThrown(vs) THEN FirstThrown(vs) ELSE Arr(vs)
    ELSE IF isString(value) /\ StartsWith(value.s, "=") THEN
        LET base == Obj(<<Prop("_this", parent)>>)
            ctx == objectAssign(base, sandbox)
            out == runInContext(replaceThis(substr(value.s, 1)), ctx)
        IN  IF Thrown(out) THEN value ELSE out
    ELSE IF isString(value) /\ StartsWith(value.s, "->") THEN
        _findReference(substr(value.s, 2), store)
    ELSE value

(***************************************************************************)
(* The collaborators: the model registry of the backend and the module     *)
(* loader.                                                                 *)
(***************************************************************************)

\* mongoose.model(name): the registered models and Model.collection.name.
Models == [User |-> "users", Team |-> "teams"]

\* module.parent.require(id): the modules that can be resolved.
Modules == [moment |-> Obj(<<Prop("version", Str("2.9.0"))>>)]

require(id) == IF id \in DOMAIN Modules THEN Modules[id] ELSE Throw(DependencyNotFound)

(***************************************************************************)
(* Options.                                                                *)
(***************************************************************************)

DEFAULT_OPTIONS ==
    Obj(<<Prop("dropDatabase", Bool(TRUE)), Prop("dropCollections", Bool(FALSE))>>)

RECURSIVE extendProps(_, _)
extendProps(dst, props) ==
    IF props = <<>> THEN dst
    ELSE extendProps(Put(dst, Head(props).k, Head(props).v), Tail(props))

\* _.extend(dst, src)
extend(dst, src) == extendProps(dst, src.p)

\* EffectiveOptions without lines 246-251: the defaulted options as they are.
EffectiveOptionsAsGiven(given) == extend(DEFAULT_OPTIONS, given)

\* Lines 244-251: the options of a run, defaulted, dropCollections winning.
EffectiveOptions(given) ==
    LET o == extend(DEFAULT_OPTIONS, given)
    IN  IF Lookup(o, "dropCollections") = Bool(TRUE) /\ Lookup(o, "dropDatabase") = Bool(TRUE)
        THEN Put(o, "dropDatabase", Bool(FALSE))
        ELSE o

(***************************************************************************)
(* Backend requests. A request is outstanding from the moment the code     *)
(* asks for it until the backend calls back.                               *)
(***************************************************************************)

NoDoc == Undef

DropDatabaseOp == [kind |-> "dropDatabase", g |-> 0, k |-> 0, model |-> "", name |-> "", doc |-> NoDoc]

\* DropCollectionOp naming the collection after the group and not after the
\* model: the first group's name for the first group, and so on.
DropCollectionOpByGroup(g, model) ==
    [kind |-> "dropCollection", g |-> g, k |-> 0, model |-> model,
     name |-> <<"users", "teams">>[g], doc |-> NoDoc]

\* Line 81: dropCollection(Model.collection.name, ...) for group number g.
DropCollectionOp(g, model) ==
    [kind |-> "dropCollection", g |-> g, k |-> 0, model |-> model, name |-> Models[model],
     doc |-> NoDoc]

CreateOp(g, k, model, doc) ==
    [kind |-> "create", g |-> g, k |-> k, model |-> model, name |-> Models[model], doc |-> doc]

(***************************************************************************)
(* _seed. A handler runs from the event that starts it to the point where  *)
(* nothing more can be done before the backend calls back. Its effect is a *)
(* record:                                                                 *)
(*   data     the fixture data _seed works on                              *)
(*   obj      which object that is: "copy" for a copy of the caller's      *)
(*            object, "caller" for the caller's object itself, "none"      *)
(*            before _seed is called                                       *)
(*   bound    the bindings it made in the global object of the process     *)
(*   store    _this.result                                                 *)
(*   sandbox  _this.sandbox                                                *)
(*   options  _this.options                                                *)
(*   requests the backend operations it requested                          *)
(*   fin      "none", or how it ended the run: "resolve" is                *)
(*            done(undefined, _this.result), "reject" is done(err), and    *)
(*            "uncaught" is an exception that left the handler through the *)
(*            backend's callback, so that done is never called             *)
(*   err      the error of a "reject" or "uncaught"                        *)
(*   at       the group and record key numbers of the last record it       *)
(*            resolved (passed to _unwind), <<0, 0>> when it resolved none *)
(***************************************************************************)

Machine(data, store, sandbox, options) ==
    [data |-> data, obj |-> "none", bound |-> Obj(<<>>), store |-> store, sandbox |-> sandbox, options |-> options,
     requests |-> <<>>, fin |-> "none", err |-> "", at |-> <<0, 0>>]

Finish(m, fin, err) == [m EXCEPT !.fin = fin, !.err = err]

Request(m, op) == [m EXCEPT !.requests = Append(@, op)]

RECURSIVE GroupIterator(_, _)
RECURSIVE KeyIterator(_, _, _, _, _)

\* KeyIterator as async.each would run it: the creates of all the remaining
\* record keys are requested at once.
KeyIteratorEach(m, g, k, model, inTry) ==
    LET value == Lookup(m.data, Keys(m.data)[g])
        ks == Keys(value)
        docs == [i \in 1..(Len(ks) - k + 1) |->
                    _unwind(Lookup(value, ks[k + i - 1]), m.store, m.sandbox)]
    IN  IF k > Len(ks)
        THEN IF g = Len(Keys(m.data))
             THEN Finish(m, "resolve", "")
             ELSE GroupIterator(m, g + 1)
        ELSE IF AnyThrown(docs)
        THEN Finish(m, "reject", FirstThrown(docs).e)
        ELSE [m EXCEPT !.at = <<g, Len(ks)>>,
                       !.requests = @ \o [i \in 1..Len(docs) |->
                                             CreateOp(g, k + i - 1, model, docs[i])]]

\* Lines 90-105: the iterator of the inner eachSeries from record key number k
\* on, and the callbacks that follow when the keys are exhausted. inTry says
\* whether the iterator runs inside the try block of line 63: it does when it
\* is called synchronously from the group's own iterator, and does not when a
\* backend callback calls it.
KeyIterator(m, g, k, model, inTry) ==
    LET key == Keys(m.data)[g]
        value == Lookup(m.data, key)
        ks == Keys(value)
    IN  IF k > Len(ks)
        THEN IF g = Len(Keys(m.data))
             THEN Finish(m, "resolve", "")
             ELSE GroupIterator(m, g + 1)
        ELSE LET doc == _unwind(Lookup(value, ks[k]), m.store, m.sandbox)
                 here == [m EXCEPT !.at = <<g, k>>]
             IN  IF Thrown(doc)
                 THEN Finish(here, IF inTry THEN "reject" ELSE "uncaught", doc.e)
                 ELSE Request(here, CreateOp(g, k, model, doc))

\* DropTask not waiting for the backend: the collection drop is requested and
\* the task calls back at once.
DropTaskNoWait(m, g, model) ==
    IF Lookup(m.options, "dropCollections") = Bool(TRUE)
    THEN KeyIterator(Request(m, DropCollectionOp(g, model)), g, 1, model, TRUE)
    ELSE KeyIterator(m, g, 1, model, TRUE)

\* Lines 78-88: the first task of async.series.
DropTask(m, g, model) ==
    IF Lookup(m.options, "dropCollections") = Bool(TRUE)
    THEN Request(m, DropCollectionOp(g, model))
    ELSE KeyIterator(m, g, 1, model, TRUE)

\* GroupIterator passing over a group without a model marker: next() where
\* line 111 has next(err).
GroupIteratorSkipMissing(m, g) ==
    LET key == Keys(m.data)[g]
        m1 == [m EXCEPT !.store = Put(m.store, key, Obj(<<>>))]
        value == Lookup(m.data, key)
    IN  IF Falsy(Lookup(value, "_model"))
        THEN IF g = Len(Keys(m.data))
             THEN Finish(m1, "resolve", "")
             ELSE GroupIterator(m1, g + 1)
        ELSE LET modelName == Lookup(value, "_model").s
                 m2 == [m1 EXCEPT !.data = Put(m1.data, key, Delete(value, "_model"))]
             IN  IF modelName \notin DOMAIN Models
                 THEN Finish(m2, "reject", UnknownModelError)
                 ELSE DropTask(m2, g, modelName)

\* GroupIterator passing over a group whose model the backend does not know.
GroupIteratorSkipUnknown(m, g) ==
    LET key == Keys(m.data)[g]
        m1 == [m EXCEPT !.store = Put(m.store, key, Obj(<<>>))]
        value == Lookup(m.data, key)
    IN  IF Falsy(Lookup(value, "_model"))
        THEN Finish(m1, "reject", MissingModelError)
        ELSE LET modelName == Lookup(value, "_model").s
                 m2 == [m1 EXCEPT !.data = Put(m1.data, key, Delete(value, "_model"))]
             IN  IF modelName \notin DOMAIN Models
                 THEN IF g = Len(Keys(m.data))
                      THEN Finish(m2, "resolve", "")
                      ELSE GroupIterator(m2, g + 1)
                 ELSE DropTask(m2, g, modelName)

\* Lines 58-112: the iterator of the outer eachSeries for group number g.
GroupIterator(m, g) ==
    LET key == Keys(m.data)[g]
        m1 == [m EXCEPT !.store = Put(m.store, key, Obj(<<>>))]
        value == Lookup(m.data, key)
    IN  IF Falsy(Lookup(value, "_model"))
        THEN Finish(m1, "reject", MissingModelError)
        ELSE LET modelName == Lookup(value, "_model").s
                 m2 == [m1 EXCEPT !.data = Put(m1.data, key, Delete(value, "_model"))]
             IN  IF modelName \notin DOMAIN Models
                 THEN Finish(m2, "reject", UnknownModelError)
                 ELSE DropTask(m2, g, modelName)

RECURSIVE LoadDependenciesGlobal(_, _)
\* LoadDependencies as src/lib/mongoose-seeder.js has it (lines 37-41): the
\* aliases are bound in the global object of the process, global[key] =
\* require(value), and the sandbox is left as it is.
LoadDependenciesGlobal(sandbox, deps) ==
    IF deps = <<>> THEN [sandbox |-> sandbox, global |-> Obj(<<>>), err |-> ""]
    ELSE LET key == Head(deps).k
             value == Head(deps).v
             loaded == require(value.s)
         IN  IF Thrown(loaded)
             THEN [sandbox |-> sandbox, global |-> Obj(<<>>), err |-> loaded.e]
             ELSE LET rest == LoadDependenciesGlobal(sandbox, Tail(deps))
                  IN  [rest EXCEPT !.global = Put(@, key, loaded)]

RECURSIVE LoadDependencies(_, _)
\* Lines 40-47: binds in the sandbox every alias that is not bound yet, in
\* order; stops at the first module that is not found, with the earlier
\* aliases bound. global holds the bindings made in the global object of the
\* process: none.
LoadDependencies(sandbox, deps) ==
    IF deps = <<>> THEN [sandbox |-> sandbox, global |-> Obj(<<>>), err |-> ""]
    ELSE LET key == Head(deps).k
             value == Head(deps).v
         IN  IF Lookup(sandbox, key) # Undef
             THEN LoadDependencies(sandbox, Tail(deps))
             ELSE LET loaded == require(value.s)
                  IN  IF Thrown(loaded)
                      THEN [sandbox |-> sandbox, global |-> Obj(<<>>), err |-> loaded.e]
                      ELSE LoadDependencies(Put(sandbox, key, loaded), Tail(deps))

\* _seed without the catch of lines 52-55: a dependency that cannot be loaded
\* is passed over and the groups are processed.
_seedPastLoadError(data, store, sandbox, options) ==
    LET deps == IF Falsy(Lookup(data.v, "_dependencies"))
                THEN <<>>
                ELSE Lookup(data.v, "_dependencies").p
        loaded == LoadDependencies(sandbox, deps)
        start == [Machine(data.v, store, loaded.sandbox, options)
                      EXCEPT !.obj = data.obj, !.bound = loaded.global]
        m == [start EXCEPT !.data = Delete(data.v, "_dependencies")]
    IN  IF Len(Keys(m.data)) = 0
        THEN Finish(m, "resolve", "")
        ELSE GroupIterator(m, 1)

\* Lines 37-121: _seed(data, done) up to its first backend request. data is
\* a reference: the object it is (obj) and what the object holds (v).
_seed(data, store, sandbox, options) ==
    LET deps == IF Falsy(Lookup(data.v, "_dependencies"))
                THEN <<>>
                ELSE Lookup(data.v, "_dependencies").p
        loaded == LoadDependencies(sandbox, deps)
        start == [Machine(data.v, store, loaded.sandbox, options)
                      EXCEPT !.obj = data.obj, !.bound = loaded.global]
    IN  IF loaded.err # ""
        THEN Finish(start, "reject", loaded.err)
        ELSE LET m == [start EXCEPT !.data = Delete(data.v, "_dependencies")]
             IN  IF Len(Keys(m.data)) = 0
                 THEN Finish(m, "resolve", "")
                 ELSE GroupIterator(m, 1)

(***************************************************************************)
(* The fixtures a run is given.                                            *)
(***************************************************************************)

\* The most record keys a group declares.
MaxKeys == 2

\* The most calls of seed() in a behaviour.
MaxRuns == 2

GroupNames == <<"users", "teams">>
GroupModels == <<"User", "Team">>
KeyNames == <<"foo", "bar", "baz", "qux">>

FieldSegments == {"_id", "email", "hobbies", "profile", "nosuch"}

\* The reference strings of the fixtures: a group, a record, a field of the
\* first record, each for the declared names and for one misspelt name, and
\* the longer and the malformed paths.
References ==
    {"->" \o g : g \in {GroupNames[i] : i \in 1..Len(GroupNames)} \cup {"user"}}
    \cup {"->" \o GroupNames[i] \o "." \o k :
            i \in 1..Len(GroupNames), k \in {KeyNames[j] : j \in 1..MaxKeys} \cup {"fooo"}}
    \cup {"->" \o GroupNames[i] \o ".foo." \o f : i \in 1..Len(GroupNames), f \in FieldSegments}
    \cup {"->users.fooo.email", "->user.foo.email", "->users.foo.nosuch.x",
          "->users.foo.profile.city", "->users.foo.email.x", "->users..foo", "->users.foo."}

\* Where a reference stands in its record: a field of the record itself, or a
\* field of an object in an array, as in the teams of the test data.
RefValues ==
    {Str(s) : s \in References}
    \cup {Arr(<<Obj(<<Prop("user", Str(s))>>)>>) : s \in References}

\* The expression strings of the fixtures: two that evaluate, and one for each
\* way an evaluation fails (an identifier that is not bound, twice; a property
\* read from undefined; a text that is no script).
Expressions ==
    {"=1+1", "=this.email + ' ' + this.name", "=firstName + ' ' + name", "=moment",
     "=this.nosuch.x", "=foo bar"}

Record(g, k) ==
    Obj(<<Prop("email", Str(KeyNames[k] \o "@" \o GroupNames[g])),
          Prop("hobbies", Arr(<<Str("cycling"), Str("swimming")>>)),
          Prop("profile", Obj(<<Prop("city", Str("Ghent"))>>))>>)

\* The fields of a record whose expression reads a sibling field that is
\* itself a reference or an expression, declared before it or after it.
Siblings ==
    {Obj(<<Prop("ref", Str("->users.foo")), Prop("fullName", Str("=this.ref"))>>),
     Obj(<<Prop("fullName", Str("=this.ref")), Prop("ref", Str("->users.foo"))>>),
     Obj(<<Prop("sum", Str("=1+1")), Prop("fullName", Str("=this.sum"))>>),
     Obj(<<Prop("fullName", Str("=this.sum")), Prop("sum", Str("=1+1"))>>)}

\* The field of a record that holds a reference and an expression inside a
\* sequence or inside a nested mapping.
Nested ==
    {Obj(<<Prop("friends", Arr(<<Str("->users.foo"), Str("=1+1"), Str("reading")>>))>>),
     Obj(<<Prop("home", Obj(<<Prop("owner", Str("->users.foo")), Prop("sum", Str("=1+1"))>>))>>)}

\* What sets a fixture apart from the plain one of its shape: a reference or
\* an expression in one record, an expression that reads a sibling in one
\* record, a reference and an expression nested in one record, the alias moment declared and used by the expression of one
\* record, the model marker of one group, or a dependency declaration.
Features(n) ==
    {[f |-> "plain", g |-> 0, k |-> 0, v |-> Undef]}
    \cup {[f |-> "ref", g |-> g, k |-> k, v |-> v] :
            g \in 1..Len(n), k \in 1..MaxKeys, v \in RefValues}
    \cup {[f |-> "expr", g |-> g, k |-> k, v |-> Str(e)] :
            g \in 1..Len(n), k \in 1..MaxKeys, e \in Expressions}
    \cup {[f |-> "alias", g |-> g, k |-> k, v |-> Str("=moment")] :
            g \in 1..Len(n), k \in 1..MaxKeys}
    \cup {[f |-> "sibling", g |-> g, k |-> k, v |-> v] :
            g \in 1..Len(n), k \in 1..MaxKeys, v \in Siblings}
    \cup {[f |-> "nested", g |-> g, k |-> k, v |-> v] :
            g \in 1..Len(n), k \in 1..MaxKeys, v \in Nested}
    \cup {[f |-> "model", g |-> g, k |-> 0, v |-> v] :
            g \in 1..Len(n), v \in {Undef, Str(""), Str("Users"), Str("User"), Str("Team")}}
    \cup {[f |-> "dependencies", g |-> 0, k |-> 0, v |-> v] :
            v \in {Obj(<<Prop("moment", Str("moment"))>>),
                    Obj(<<Prop("moment", Str("moment")), Prop("unknown", Str("unknown"))>>)}}

FixtureRecord(g, k, ft) ==
    IF ft.f = "ref" /\ ft.g = g /\ ft.k = k
    THEN Obj(Append(Record(g, k).p, Prop("ref", ft.v)))
    ELSE IF ft.f \in {"expr", "alias"} /\ ft.g = g /\ ft.k = k
    THEN Obj(Record(g, k).p \o <<Prop("name", Str("Bar")), Prop("fullName", ft.v)>>)
    ELSE IF ft.f \in {"sibling", "nested"} /\ ft.g = g /\ ft.k = k
    THEN Obj(Record(g, k).p \o ft.v.p)
    ELSE Record(g, k)

FixtureGroup(g, nk, ft) ==
    LET marker == IF ft.f = "model" /\ ft.g = g THEN ft.v ELSE Str(GroupModels[g])
        records == [k \in 1..nk |-> Prop(KeyNames[k], FixtureRecord(g, k, ft))]
    IN  Obj((IF marker = Undef THEN <<>> ELSE <<Prop("_model", marker)>>) \o records)

\* The fixture of shape n (n[g] is the number of record keys of group g).
Fixture(n, ft) ==
    Obj((IF ft.f = "dependencies" THEN <<Prop("_dependencies", ft.v)>>
         ELSE IF ft.f = "alias"
         THEN <<Prop("_dependencies", Obj(<<Prop("moment", Str("moment"))>>))>>
         ELSE <<>>)
        \o [g \in 1..Len(n) |-> Prop(GroupNames[g], FixtureGroup(g, n[g], ft))])

Shapes == UNION {[1..ng -> 0..MaxKeys] : ng \in 0..Len(GroupNames)}

Fixtures ==
    UNION {{Fixture(n, ft) : ft \in {x \in Features(n) :
                /\ x.f \in {"ref", "expr", "alias", "sibling", "nested"} => x.k <= n[x.g]
                /\ x.f = "nested" => <<x.g, x.k>> # <<1, 1>>}} :
             n \in Shapes}

\* The options a caller passes.
OptionChoices ==
    {Obj(<<>>),
     Obj(<<Prop("dropDatabase", Bool(FALSE))>>),
     Obj(<<Prop("dropCollections", Bool(TRUE))>>),
     Obj(<<Prop("dropDatabase", Bool(FALSE)), Prop("dropCollections", Bool(TRUE))>>),
     Obj(<<Prop("dropDatabase", Bool(TRUE)), Prop("dropCollections", Bool(FALSE))>>),
     Obj(<<Prop("dropDatabase", Bool(TRUE)), Prop("dropCollections", Bool(TRUE))>>)}

(***************************************************************************)
(* State.                                                                  *)
(***************************************************************************)

VARIABLES
    callerData,  \* the fixture object the caller passes to seed()
    idType,      \* the type of the identifiers the backend generates
    result,      \* _this.result: which result store the module refers to
    stores,      \* the result stores: stores[r] is the object seed() call r made
    sandbox,     \* _this.sandbox: which sandbox the module refers to
    sandboxes,   \* the sandboxes: sandboxes[r] is the context seed() call r made
    options,     \* _this.options
    status,      \* status[r]: "idle", "running", "resolved", "rejected", "uncaught"
    given,       \* given[r]: the options seed() call r was given
    data,        \* data[r]: the fixture data _seed of run r works on
    held,        \* held[r]: which object data[r] is: "none", "copy" or "caller"
    global,      \* the bindings of the global object of the process
    pending,     \* pending[r]: the backend requests of run r not yet called back
    promise,     \* promise[r]: the state of the promise seed() call r returned
    callbacks,   \* callbacks[r]: the invocations of the callback of call r
    db,          \* the documents of each collection of the backend
    nextId,      \* the next identifier the backend generates
    log,         \* log[r]: the backend requests and callbacks of run r, in order
    cursor,      \* cursor[r]: the last record run r resolved, <<group, key>> numbers
    made,        \* made[r]: the documents the backend created for run r
    passed,      \* passed[r]: the value the caller's object had at seed() call r
    uncaught     \* uncaught[r]: the exception that left run r uncaught, "" if none

vars == <<callerData, idType, result, stores, sandbox, sandboxes, options, status, given,
          data, held, global, pending, promise, callbacks, db, nextId, log, cursor, made,
          passed, uncaught>>

Runs == 1..MaxRuns

Collections == {Models[m] : m \in DOMAIN Models}

Range(seq) == {seq[i] : i \in 1..Len(seq)}

\* The state of the module when it is loaded (lines 27-30) and nothing is
\* seeded.
InitModule ==
    /\ result = 0
    /\ stores = [r \in 0..MaxRuns |-> Obj(<<>>)]
    /\ sandbox = 0
    /\ sandboxes = [r \in 0..MaxRuns |-> IF r = 0 THEN Undef ELSE Obj(<<>>)]
    /\ options = Obj(<<>>)
    /\ status = [r \in Runs |-> "idle"]
    /\ given = [r \in Runs |-> Obj(<<>>)]
    /\ data = [r \in Runs |-> Undef]
    /\ held = [r \in Runs |-> "none"]
    /\ global = Obj(<<>>)
    /\ pending = [r \in Runs |-> {}]
    /\ promise = [r \in Runs |-> [state |-> "pending", err |-> "", value |-> 0]]
    /\ callbacks = [r \in Runs |-> <<>>]
    /\ nextId = 1
    /\ log = [r \in Runs |-> <<>>]
    /\ cursor = [r \in Runs |-> <<0, 0>>]
    /\ made = [r \in Runs |-> {}]
    /\ passed = [r \in Runs |-> Undef]
    /\ uncaught = [r \in Runs |-> ""]

Init ==
    /\ callerData \in Fixtures
    /\ idType \in {"ObjectId", "Number"}
    /\ InitModule
    /\ db = [c \in Collections |-> {}]

\* The identifier of a new document: an ObjectId by default, a number when the
\* schema declares _id as a Number.
NewId(n) == IF idType = "ObjectId" THEN ObjectId(n) ELSE Num(n)

\* Model.create(doc): the document the backend stores and returns.
Created(doc, id) == Obj(<<Prop("_id", id)>> \o doc.p)

(***************************************************************************)
(* done (lines 278-287) and the way a handler's effect becomes the state.  *)
(***************************************************************************)

\* def.reject(err) and def.resolve(result): a settled promise stays as it is.
Settle(p, state, err, value) ==
    IF p.state = "pending" THEN [state |-> state, err |-> err, value |-> value] ELSE p

\* done without the return of line 282: after the error, the callback is
\* called a second time, with the result.
doneNoReturn(cbs, fin, err, res) ==
    CASE fin = "resolve" -> Append(cbs, [err |-> "", value |-> res])
      [] fin = "reject" -> cbs \o <<[err |-> err, value |-> 0], [err |-> "", value |-> res]>>
      [] OTHER -> cbs

\* done handing the result store to the callback next to the error:
\* callback(err, result).
doneWithResult(cbs, fin, err, res) ==
    CASE fin = "resolve" -> Append(cbs, [err |-> "", value |-> res])
      [] fin = "reject" -> Append(cbs, [err |-> err, value |-> res])
      [] OTHER -> cbs

\* Lines 278-287: the invocations of the callback after done(err) or
\* done(undefined, result).
done(cbs, fin, err, res) ==
    CASE fin = "resolve" -> Append(cbs, [err |-> "", value |-> res])
      [] fin = "reject" -> Append(cbs, [err |-> err, value |-> 0])
      [] OTHER -> cbs

\* The state after run r's handler had the effect o. The handler was called
\* back for the request op (or was the call of seed() itself: op = NoOp), and
\* ev is the callback's entry in the log.
NoOp == [kind |-> "none", g |-> 0, k |-> 0, model |-> "", name |-> "", doc |-> NoDoc]

Apply(r, op, ev, o, res, sb) ==
    /\ data' = [data EXCEPT ![r] = o.data]
    /\ held' = [held EXCEPT ![r] = o.obj]
    /\ global' = extend(global, o.bound)
    /\ callerData' = IF o.obj = "caller" THEN o.data ELSE callerData
    /\ stores' = [stores EXCEPT ![res] = o.store]
    /\ sandboxes' = [sandboxes EXCEPT ![sb] = o.sandbox]
    /\ pending' = [pending EXCEPT ![r] = (@ \ {op}) \cup Range(o.requests)]
    /\ log' = [log EXCEPT ![r] =
                  @ \o ev \o [i \in 1..Len(o.requests) |-> [e |-> "request", op |-> o.requests[i]]]]
    /\ status' = [status EXCEPT ![r] =
                     CASE o.fin = "resolve" -> "resolved"
                       [] o.fin = "reject" -> "rejected"
                       [] o.fin = "uncaught" -> "uncaught"
                       [] OTHER -> "running"]
    /\ promise' = [promise EXCEPT ![r] =
                      CASE o.fin = "resolve" -> Settle(@, "fulfilled", "", res)
                        [] o.fin = "reject" -> Settle(@, "rejected", o.err, 0)
                        [] OTHER -> @]
    /\ callbacks' = [callbacks EXCEPT ![r] = done(@, o.fin, o.err, res)]
    /\ cursor' = [cursor EXCEPT ![r] = IF o.at = <<0, 0>> THEN @ ELSE o.at]
    /\ uncaught' = [uncaught EXCEPT ![r] = IF o.fin = "uncaught" THEN o.err ELSE @]

(***************************************************************************)
(* The operations: the call of seed() and the callbacks of the backend.    *)
(***************************************************************************)

\* What a backend callback of run r starts from: the data of the run's _seed
\* and the result store, sandbox and options the module refers to.
Here(r) ==
    [Machine(data[r], stores[result], sandboxes[sandbox], options) EXCEPT !.obj = held[r]]

\* The caller's object, as the argument data of seed().
CallerObject == [obj |-> "caller", v |-> callerData]

\* cloneDeep returning its argument: _seed works on the caller's object.
cloneDeepSame(x) == x

\* _.cloneDeep(data): a copy that shares nothing with the caller's object.
cloneDeep(x) == [obj |-> "copy", v |-> x.v]

\* StartSeeding not waiting for the database drop: the drop is requested and
\* the seeding starts at once.
StartSeedingNoWait(fresh, input) ==
    IF Lookup(fresh.options, "dropDatabase") = Bool(TRUE)
    THEN LET o == _seed(cloneDeep(input), fresh.store, fresh.sandbox, fresh.options)
         IN  [o EXCEPT !.requests = <<DropDatabaseOp>> \o @]
    ELSE _seed(cloneDeep(input), fresh.store, fresh.sandbox, fresh.options)

\* StartSeeding dropping the database whatever the options say.
StartSeedingAlwaysDrop(fresh, input) == Request(fresh, DropDatabaseOp)

\* StartSeeding never dropping the database.
StartSeedingNeverDrop(fresh, input) ==
    _seed(cloneDeep(input), fresh.store, fresh.sandbox, fresh.options)

\* StartSeeding loading the dependencies before the database drop is
\* requested: a dependency that is not found ends the run at once.
StartSeedingLoadFirst(fresh, input) ==
    LET o == _seed(cloneDeep(input), fresh.store, fresh.sandbox, fresh.options)
    IN  IF Lookup(fresh.options, "dropDatabase") = Bool(TRUE)
        THEN IF o.fin = "reject" /\ o.err = DependencyNotFound
             THEN o
             ELSE Request(fresh, DropDatabaseOp)
        ELSE o

\* Lines 253-268: the database drop is requested, or the seeding starts on a
\* copy of the caller's data.
StartSeeding(fresh, input) ==
    IF Lookup(fresh.options, "dropDatabase") = Bool(TRUE)
    THEN Request(fresh, DropDatabaseOp)
    ELSE _seed(cloneDeep(input), fresh.store, fresh.sandbox, fresh.options)

\* seed() without the statement _this.result = {} of line 239: the module
\* keeps the result store of the call before.
seedKeepResult(r, opts) ==
    /\ status[r] = "idle"
    /\ \A q \in 1..(r - 1) : status[q] # "idle"
    /\ given' = [given EXCEPT ![r] = opts]
    /\ result' = IF result = 0 THEN r ELSE result
    /\ sandbox' = r
    /\ options' = EffectiveOptions(opts)
    /\ LET fresh == Machine(Undef, stores[result'], Obj(<<>>), options')
           o == StartSeeding(fresh, CallerObject)
       IN  Apply(r, NoOp, <<>>, o, result', r)
    /\ passed' = [passed EXCEPT ![r] = callerData]
    /\ UNCHANGED <<idType, db, nextId, made>>

\* Lines 225-291: the call of seed(data, options, callback) number r.
seed(r, opts) ==
    /\ status[r] = "idle"
    /\ \A q \in 1..(r - 1) : status[q] # "idle"
    /\ given' = [given EXCEPT ![r] = opts]
    /\ result' = r
    /\ sandbox' = r
    /\ options' = EffectiveOptions(opts)
    /\ LET fresh == Machine(Undef, Obj(<<>>), Obj(<<>>), options')
           o == StartSeeding(fresh, CallerObject)
       IN  Apply(r, NoOp, <<>>, o, r, r)
    /\ passed' = [passed EXCEPT ![r] = callerData]
    /\ UNCHANGED <<idType, db, nextId, made>>

\* OnDatabaseDropped not looking at the error: the seeding starts whether the
\* database was dropped or not.
OnDatabaseDroppedGoOn(here, input, err) ==
    _seed(cloneDeep(input), here.store, here.sandbox, here.options)

\* Lines 255-263: function(err) of dropDatabase. An error is handed to done,
\* otherwise the seeding starts on a copy of the caller's data.
OnDatabaseDropped(here, input, err) ==
    IF err THEN Finish(here, "reject", BackendOperationError)
    ELSE _seed(cloneDeep(input), here.store, here.sandbox, here.options)

\* Lines 255-263: the backend calls back for the database drop of run r.
dropDatabaseCallback(r, err) ==
    /\ DropDatabaseOp \in pending[r]
    /\ db' = IF err THEN db ELSE [c \in Collections |-> {}]
    /\ LET here == Here(r)
           o == OnDatabaseDropped(here, CallerObject, err)
           ev == [e |-> IF err THEN "failure" ELSE "success", op |-> DropDatabaseOp]
       IN  Apply(r, DropDatabaseOp, <<ev>>, o, result, sandbox)
    /\ UNCHANGED <<idType, result, sandbox, options, given, nextId, made, passed>>

\* OnCollectionDropped passing the error on: callback(err), which ends the
\* series and the run.
OnCollectionDroppedAbort(here, op, err) ==
    IF err THEN Finish(here, "reject", BackendOperationError)
    ELSE KeyIterator(here, op.g, 1, op.model, FALSE)

\* Lines 81-83: function(err) { callback(); }, the error is not looked at and
\* the series goes on with the record keys of the group.
OnCollectionDropped(here, op, err) == KeyIterator(here, op.g, 1, op.model, FALSE)

\* Lines 81-83: the backend calls back for a collection drop of run r.
dropCollectionCallback(r, op, err) ==
    /\ op \in pending[r]
    /\ op.kind = "dropCollection"
    /\ db' = IF err THEN db ELSE [db EXCEPT ![op.name] = {}]
    /\ LET here == Here(r)
           o == OnCollectionDropped(here, op, err)
           ev == [e |-> IF err THEN "failure" ELSE "success", op |-> op]
       IN  Apply(r, op, <<ev>>, o, result, sandbox)
    /\ UNCHANGED <<idType, result, sandbox, options, given, nextId, made, passed>>

\* StoreResult writing the record next to the groups: _this.result[k] = result
StoreResultFlat(store, key, k, doc) == Put(store, k, doc)

\* Line 101: _this.result[key][k] = result
StoreResult(store, key, k, doc) == Put(store, key, Put(Lookup(store, key), k, doc))

\* OnCreated going on after an error: innerNext() where line 98 has
\* innerNext(err).
OnCreatedGoOn(here, key, k, op, doc, err) ==
    IF err THEN KeyIterator(here, op.g, op.k + 1, op.model, FALSE)
    ELSE IF Lookup(here.store, key) = Undef THEN Finish(here, "uncaught", PropertyNotFound)
    ELSE KeyIterator([here EXCEPT !.store = StoreResult(@, key, k, doc)],
                     op.g, op.k + 1, op.model, FALSE)

\* Lines 95-104: function(err, result) of Model.create. An error ends the
\* inner eachSeries, the series and the outer eachSeries, whose final callback
\* calls done(err); otherwise the document is stored and the next key follows.
OnCreated(here, key, k, op, doc, err) ==
    IF err THEN Finish(here, "reject", BackendOperationError)
    ELSE IF Lookup(here.store, key) = Undef THEN Finish(here, "uncaught", PropertyNotFound)
    ELSE KeyIterator([here EXCEPT !.store = StoreResult(@, key, k, doc)],
                     op.g, op.k + 1, op.model, FALSE)

\* Lines 95-104: the backend calls back for a create of run r.
createCallback(r, op, err) ==
    /\ op \in pending[r]
    /\ op.kind = "create"
    /\ LET doc == Created(op.doc, NewId(nextId))
           here == Here(r)
           key == Keys(data[r])[op.g]
           k == Keys(Lookup(data[r], key))[op.k]
           o == OnCreated(here, key, k, op, doc, err)
           ev == [e |-> IF err THEN "failure" ELSE "success", op |-> op]
       IN  /\ db' = IF err THEN db ELSE [db EXCEPT ![op.name] = @ \cup {doc}]
           /\ nextId' = IF err THEN nextId ELSE nextId + 1
           /\ made' = [made EXCEPT ![r] = IF err THEN @ ELSE @ \cup {doc}]
           /\ Apply(r, op, <<ev>>, o, result, sandbox)
    /\ UNCHANGED <<idType, result, sandbox, options, given, passed>>

\* A single run: seed() is called once.
Next ==
    \/ \E opts \in OptionChoices : seed(1, opts)
    \/ \E r \in Runs, err \in BOOLEAN : dropDatabaseCallback(r, err)
    \/ \E r \in Runs, err \in BOOLEAN : \E op \in pending[r] : dropCollectionCallback(r, op, err)
    \/ \E r \in Runs, err \in BOOLEAN : \E op \in pending[r] : createCallback(r, op, err)

Spec == Init /\ [][Next]_vars

\* Data that declares a dependency that cannot be loaded and has a group
\* without its model marker.
UnloadableAndUnmarked ==
    Obj(<<Prop("_dependencies", Obj(<<Prop("unknown", Str("unknown"))>>))>>
        \o Fixture(<<1>>, [f |-> "model", g |-> 1, k |-> 0, v |-> Undef]).p)

\* The fixtures of the runs that follow one another: every shape, plain, with
\* a reference to users.foo or teams.foo at any record, with a group that
\* lacks its model marker, or with dependencies declared.
SeqFixtures ==
    UNION {{Fixture(n, ft) : ft \in {x \in Features(n) :
                                        /\ x.f \in {"plain", "ref", "model", "dependencies"}
                                        /\ x.f = "ref" => x.k <= n[x.g]
                                        /\ x.f = "ref" => x.v \in {Str("->users.foo"), Str("->teams.foo")}
                                        /\ x.f = "model" => x.v = Undef}} :
             n \in Shapes}
    \cup {UnloadableAndUnmarked}

\* A document the collection of users holds before anything is seeded.
Existing == Obj(<<Prop("_id", Num(0)), Prop("email", Str("old@users"))>>)

InitialDb == [c \in Collections |-> IF c = "users" THEN {Existing} ELSE {}]

InitSeq ==
    /\ callerData \in SeqFixtures
    /\ idType \in {"ObjectId", "Number"}
    /\ InitModule
    /\ db = InitialDb

\* Run r has completed: done was called.
Completed(r) == status[r] \in {"resolved", "rejected"}

\* Runs that follow one another: seed() is called again when the run before
\* has completed.
NextSeq ==
    \/ \E r \in Runs, opts \in OptionChoices :
           (\A q \in 1..(r - 1) : Completed(q)) /\ seed(r, opts)
    \/ \E r \in Runs, err \in BOOLEAN : dropDatabaseCallback(r, err)
    \/ \E r \in Runs, err \in BOOLEAN : \E op \in pending[r] : dropCollectionCallback(r, op, err)
    \/ \E r \in Runs, err \in BOOLEAN : \E op \in pending[r] : createCallback(r, op, err)

SpecSeq == InitSeq /\ [][NextSeq]_vars

\* The fixtures of the runs that overlap: one group of one or two records or
\* two groups of one record, plain or with the alias moment declared and used
\* by the expression of one record.
OverlapFixtures ==
    UNION {{Fixture(n, ft) : ft \in {x \in Features(n) :
                                        /\ x.f \in {"plain", "alias"}
                                        /\ x.f = "alias" => x.k <= n[x.g]}} :
             n \in {<<1>>, <<2>>, <<1, 1>>}}

\* The options of the runs that overlap: the defaults, no drop, and
\* dropCollections.
OverlapOptions ==
    {Obj(<<>>),
     Obj(<<Prop("dropDatabase", Bool(FALSE))>>),
     Obj(<<Prop("dropCollections", Bool(TRUE))>>)}

InitOverlap ==
    /\ callerData \in OverlapFixtures
    /\ idType \in {"ObjectId", "Number"}
    /\ InitModule
    /\ db = [c \in Collections |-> {}]

\* Runs that overlap: seed() is called again at any moment, whether the runs
\* before have completed or not.
NextOverlap ==
    \/ \E r \in Runs, opts \in OverlapOptions : seed(r, opts)
    \/ \E r \in Runs, err \in BOOLEAN : dropDatabaseCallback(r, err)
    \/ \E r \in Runs, err \in BOOLEAN : \E op \in pending[r] : dropCollectionCallback(r, op, err)
    \/ \E r \in Runs, err \in BOOLEAN : \E op \in pending[r] : createCallback(r, op, err)

SpecOverlap == InitOverlap /\ [][NextOverlap]_vars

(***************************************************************************)
(* A caller that changes its object after seed() has returned.             *)
(***************************************************************************)

\* The address the caller writes into its record users.foo.
LateEmail == Str("late@users")

\* The caller's statement data.users.foo.email = 'late@users', made after a
\* seed() call has returned its promise. The object is the one seed() was
\* given: lines 262 and 267 read it through the parameter data.
callerChanges ==
    /\ \E r \in Runs : status[r] # "idle"
    /\ HasKey(Lookup(callerData, "users"), "foo")
    /\ Lookup(Lookup(Lookup(callerData, "users"), "foo"), "email") # LateEmail
    /\ callerData' =
           Put(callerData, "users",
               Put(Lookup(callerData, "users"), "foo",
                   Put(Lookup(Lookup(callerData, "users"), "foo"), "email", LateEmail)))
    /\ UNCHANGED <<idType, result, stores, sandbox, sandboxes, options, status, given, data,
                   held, global, pending, promise, callbacks, db, nextId, log, cursor, made,
                   passed, uncaught>>

\* The fixtures of the caller that changes its object: plain data of one or
\* two groups.
CallerFixtures ==
    {Fixture(n, [f |-> "plain", g |-> 0, k |-> 0, v |-> Undef]) :
        n \in {<<1>>, <<2>>, <<1, 1>>, <<2, 1>>}}

InitCaller ==
    /\ callerData \in CallerFixtures
    /\ idType \in {"ObjectId", "Number"}
    /\ InitModule
    /\ db = [c \in Collections |-> {}]

NextCaller ==
    \/ \E opts \in OptionChoices : seed(1, opts)
    \/ callerChanges
    \/ \E r \in Runs, err \in BOOLEAN : dropDatabaseCallback(r, err)
    \/ \E r \in Runs, err \in BOOLEAN : \E op \in pending[r] : dropCollectionCallback(r, op, err)
    \/ \E r \in Runs, err \in BOOLEAN : \E op \in pending[r] : createCallback(r, op, err)

SpecCaller == InitCaller /\ [][NextCaller]_vars

(***************************************************************************)
(* What a run was asked and what it did, read from the caller's fixture    *)
(* and the log.                                                            *)
(***************************************************************************)

\* The groups the caller declared, in declaration order.
DeclaredGroups == SelectSeq(Keys(callerData), LAMBDA g : g # "_dependencies")

\* The record keys group g declares, in declaration order.
DeclaredKeys(g) == SelectSeq(Keys(Lookup(callerData, g)), LAMBDA k : k # "_model")

RECURSIVE RecordsOf(_)
RecordsOf(groups) ==
    IF groups = <<>> THEN <<>>
    ELSE [i \in 1..Len(DeclaredKeys(Head(groups))) |->
             <<Head(groups), DeclaredKeys(Head(groups))[i]>>]
         \o RecordsOf(Tail(groups))

\* The records the caller declared, <<group, key>>, in declaration order.
DeclaredRecords == RecordsOf(DeclaredGroups)

\* The group and the record key a create request of run r is for.
GroupOf(r, op) == Keys(data[r])[op.g]
KeyOf(r, op) == Keys(Lookup(data[r], GroupOf(r, op)))[op.k]

IsRequest(ev, kind) == ev.e = "request" /\ ev.op.kind = kind

\* The create requests of run r, in the order they were made.
CreateRequests(r) == SelectSeq(log[r], LAMBDA ev : IsRequest(ev, "create"))

\* The request at position i of the log of run r was called back, with
\* success, before position j.
SucceededBetween(r, i, j) ==
    \E m \in (i + 1)..(j - 1) : log[r][m] = [e |-> "success", op |-> log[r][i].op]

CalledBackBetween(r, i, j) ==
    \E m \in (i + 1)..(j - 1) : log[r][m].e # "request" /\ log[r][m].op = log[r][i].op

(***************************************************************************)
(* C1: In a single run the creates are requested in declaration order,     *)
(* groups in the order they are declared and record keys in the order they *)
(* are declared inside their group, and the create of a record is          *)
(* requested only after the create of every record declared before it has  *)
(* called back with success.                                               *)
(***************************************************************************)
C1_CreatesInDeclarationOrder ==
    LET reqs == CreateRequests(1)
    IN  /\ Len(reqs) <= Len(DeclaredRecords)
        /\ \A i \in 1..Len(reqs) :
               <<GroupOf(1, reqs[i].op), KeyOf(1, reqs[i].op)>> = DeclaredRecords[i]
        /\ \A j \in 1..Len(log[1]) : IsRequest(log[1][j], "create") =>
               \A i \in 1..(j - 1) : IsRequest(log[1][i], "create") =>
                   SucceededBetween(1, i, j)

\* A run of two groups and at least three records that created them all.
C1_Witness ==
    /\ status[1] = "resolved"
    /\ Len(DeclaredGroups) >= 2
    /\ Len(DeclaredRecords) >= 3
    /\ Len(CreateRequests(1)) = Len(DeclaredRecords)

(***************************************************************************)
(* C2: At most one backend operation of a run is outstanding: no drop and  *)
(* no create is requested while an earlier request of the run has not been *)
(* called back.                                                            *)
(***************************************************************************)
C2_OneOutstanding ==
    \A r \in Runs :
        /\ Cardinality(pending[r]) <= 1
        /\ \A j \in 1..Len(log[r]) : log[r][j].e = "request" =>
               \A i \in 1..(j - 1) : log[r][i].e = "request" => CalledBackBetween(r, i, j)

\* A create is outstanding after a collection drop and an earlier create
\* were requested and called back.
C2_Witness ==
    /\ \E op \in pending[1] : op.kind = "create"
    /\ \E i \in 1..Len(log[1]) : log[1][i].e = "success" /\ log[1][i].op.kind = "dropCollection"
    /\ \E i \in 1..Len(log[1]) : log[1][i].e = "success" /\ log[1][i].op.kind = "create"

(***************************************************************************)
(* C3: The result a run delivers has exactly the declared groups as its    *)
(* keys and, under each group, exactly the declared record keys, each      *)
(* holding the one record created for it; "_model" is no record key and    *)
(* "_dependencies" is no group.                                            *)
(***************************************************************************)
SameSeq(a, b) == Len(a) = Len(b) /\ \A i \in 1..Len(a) : a[i] = b[i]

\* Record rec is what the one create requested for <<g, k>> by run r returned.
CreatedFor(r, g, k, rec) ==
    LET reqs == SelectSeq(CreateRequests(r),
                          LAMBDA ev : GroupOf(r, ev.op) = g /\ KeyOf(r, ev.op) = k)
    IN  /\ Len(reqs) = 1
        /\ ~Falsy(Lookup(rec, "_id"))
        /\ Delete(rec, "_id") = reqs[1].op.doc

C3_ResultShape ==
    status[1] = "resolved" =>
        LET res == stores[promise[1].value]
        IN  /\ callbacks[1] = <<[err |-> "", value |-> promise[1].value]>>
            /\ SameSeq(Keys(res), DeclaredGroups)
            /\ \A i \in 1..Len(DeclaredGroups) :
                   LET g == DeclaredGroups[i]
                       group == Lookup(res, g)
                   IN  /\ g # "_dependencies"
                       /\ SameSeq(Keys(group), DeclaredKeys(g))
                       /\ \A j \in 1..Len(Keys(group)) :
                              /\ Keys(group)[j] # "_model"
                              /\ CreatedFor(1, g, Keys(group)[j], Lookup(group, Keys(group)[j]))

\* A fixture that declares dependencies, two groups and four records was
\* seeded and its result delivered.
C3_Witness ==
    /\ status[1] = "resolved"
    /\ HasKey(callerData, "_dependencies")
    /\ Len(DeclaredGroups) = 2
    /\ Len(DeclaredRecords) >= 4

(***************************************************************************)
(* References: what a fixture declares and what the run made of it.        *)
(***************************************************************************)

\* The reference a declared value holds: the string itself, or the string in
\* the object of the array that wraps it.
Inner(declared, v) == IF declared.t = "arr" THEN Lookup(v.a[1], "user") ELSE v

\* The reference string record <<g, k>> declares in its field ref, "" if none.
DeclaredRef(g, k) ==
    LET d == Lookup(Lookup(Lookup(callerData, g), k), "ref")
    IN  IF d = Undef THEN "" ELSE Inner(d, d).s

\* The path of a reference string of the fixtures: its segments.
PathOf == [ref \in References |-> split(substr(ref, 2))]

\* What the reference of record <<g, k>> became in the document doc.
ResolvedRef(g, k, doc) ==
    Inner(Lookup(Lookup(Lookup(callerData, g), k), "ref"), Lookup(doc, "ref"))

RECURSIVE PathValue(_, _)
\* The value at the end of a path of plain property lookups, undefined when a
\* segment is missing.
PathValue(v, segs) ==
    IF segs = <<>> THEN v ELSE PathValue(Lookup(v, Head(segs)), Tail(segs))

IsScalar(v) == v.t \in {"str", "num", "bool"}

\* The group and the key of the record run r resolved last.
CursorGroup(r) == Keys(data[r])[cursor[r][1]]
CursorKey(r) == Keys(Lookup(data[r], CursorGroup(r)))[cursor[r][2]]

\* The create run r has outstanding for the record it resolved last.
CursorCreates(r) == {op \in pending[r] : op.kind = "create" /\ <<op.g, op.k>> = cursor[r]}

\* The resolution of a record threw.
ResolutionErrors == {ReferenceNotFound, PropertyNotFound, MissingIdentifier}

Threw(r) ==
    \/ status[r] = "uncaught"
    \/ status[r] = "rejected" /\ promise[r].err \in ResolutionErrors

\* Run r has just resolved a record that declares a reference: its create is
\* outstanding or the resolution threw, and the result store is the one the
\* reference was resolved against.
AtReference(r) ==
    /\ cursor[r] # <<0, 0>>
    /\ CursorCreates(r) # {} \/ Threw(r)
    /\ DeclaredRef(CursorGroup(r), CursorKey(r)) # ""

CursorPath(r) == PathOf[DeclaredRef(CursorGroup(r), CursorKey(r))]

\* The run failed with error e: the promise is rejected with it and the
\* callback was called with it.
FailedWith(r, e) ==
    /\ status[r] = "rejected"
    /\ promise[r] = [state |-> "rejected", err |-> e, value |-> 0]
    /\ callbacks[r] = <<[err |-> e, value |-> 0]>>

\* The create of the record resolved last is outstanding and its reference
\* became v.
ResolvedTo(r, v) ==
    /\ ~Threw(r)
    /\ \A op \in CursorCreates(r) : ResolvedRef(CursorGroup(r), CursorKey(r), op.doc) = v

(***************************************************************************)
(* C4: A reference "->g.k" to a record created earlier in the run resolves *)
(* to the identifier field of result[g][k], and "->g.k._id" resolves to    *)
(* the same value as "->g.k".                                              *)
(***************************************************************************)
C4_RefIsIdentifier ==
    LET store == stores[result]
        path == CursorPath(1)
        record == PathValue(store, <<path[1], path[2]>>)
    IN  /\ AtReference(1)
        /\ Len(path) = 2 \/ (Len(path) = 3 /\ path[3] = "_id")
        /\ record # Undef
        => ResolvedTo(1, Lookup(record, "_id"))

\* The first half of C4 alone: "->g.k" resolves to the identifier of the
\* record created for <<g, k>>.
C4_RecordRefIsIdentifier ==
    LET store == stores[result]
        path == CursorPath(1)
    IN  AtReference(1) /\ Len(path) = 2 /\ PathValue(store, path) # Undef
        => ResolvedTo(1, Lookup(PathValue(store, path), "_id"))

(***************************************************************************)
(* C5: A reference "->g.k.field" to a scalar field of a record created     *)
(* earlier in the run resolves to exactly that field's value.              *)
(***************************************************************************)
FieldReferences == {ref \in References : Len(PathOf[ref]) = 3}

C5_ScalarFieldRef ==
    LET store == stores[result]
    IN  /\ AtReference(1) /\ Len(CursorPath(1)) = 3
              /\ IsScalar(PathValue(store, CursorPath(1)))
           => ResolvedTo(1, PathValue(store, CursorPath(1)))
        /\ \A ref \in FieldReferences :
               IsScalar(PathValue(store, PathOf[ref]))
               => _findReference(substr(ref, 2), store) = PathValue(store, PathOf[ref])

\* The create of teams.foo is outstanding with its reference to the email of
\* users.foo resolved to that email.
C5_Witness ==
    /\ AtReference(1)
    /\ CursorGroup(1) = "teams"
    /\ DeclaredRef(CursorGroup(1), CursorKey(1)) = "->users.foo.email"
    /\ \E op \in CursorCreates(1) :
           ResolvedRef(CursorGroup(1), CursorKey(1), op.doc) = Str("foo@users")

\* No segment of the path is the empty string.
ProperPath(path) == \A i \in 1..Len(path) : path[i] # ""

\* The group the first segment of the path selects has a created record in
\* the store.
GroupHasRecord(store, path) ==
    /\ Lookup(store, path[1]) # Undef
    /\ Len(Keys(Lookup(store, path[1]))) > 0

\* Run r failed with one of the errors of the reference resolution.
FailedResolution(r) == \E e \in ResolutionErrors : FailedWith(r, e)

(***************************************************************************)
(* C6: A reference whose first segment selects a group without a created   *)
(* record in the result store of the run (an unknown group, a group        *)
(* declared later, a group started but still empty) fails the run with the *)
(* reference-not-found error.                                              *)
(***************************************************************************)
C6_NoRecordInGroup ==
    AtReference(1) /\ ~GroupHasRecord(stores[result], CursorPath(1))
    => FailedWith(1, ReferenceNotFound)

\* C6 for the groups the run has not started: unknown and later groups.
C6_GroupNotStarted ==
    /\ AtReference(1)
    /\ Lookup(stores[result], CursorPath(1)[1]) = Undef
    /\ status[1] # "uncaught"
    => FailedWith(1, ReferenceNotFound)

(***************************************************************************)
(* C7: Whenever a create is issued for a record that holds a reference     *)
(* "->g.k" or "->g.k.<path>", the record k of group g has been created and *)
(* is in the result store of the run.                                      *)
(***************************************************************************)
C7_NoForwardKeyReference ==
    LET path == CursorPath(1)
    IN  AtReference(1) /\ CursorCreates(1) # {} /\ Len(path) >= 2
        => PathValue(stores[result], <<path[1], path[2]>>) # Undef

(***************************************************************************)
(* C8: A reference whose path names a property missing from the data       *)
(* created before fails the run with an error, wherever in the path the    *)
(* missing segment stands, and never resolves to an undefined value.       *)
(***************************************************************************)
C8_MissingPropertyFails ==
    LET store == stores[result]
        path == CursorPath(1)
    IN  /\ AtReference(1)
        /\ ProperPath(path)
        /\ GroupHasRecord(store, path)
        /\ PathValue(store, path) = Undef
        => FailedResolution(1)

\* C8 for the paths whose missing segment is not the last one.
C8_MissingInnerSegmentFails ==
    LET store == stores[result]
        path == CursorPath(1)
    IN  /\ AtReference(1)
        /\ ProperPath(path)
        /\ GroupHasRecord(store, path)
        /\ PathValue(store, SubSeq(path, 1, Len(path) - 1)) = Undef
        /\ status[1] # "uncaught"
        => FailedWith(1, PropertyNotFound)

(***************************************************************************)
(* C9: When the path of a reference ends on an object that is not an       *)
(* array, the reference resolves to the identifier field of that object,   *)
(* and the run fails with the missing-identifier error when the object has *)
(* no identifier field.                                                    *)
(***************************************************************************)
C9_ObjectRefIsIdentifier ==
    LET v == PathValue(stores[result], CursorPath(1))
    IN  AtReference(1) /\ isObject(v) /\ ~isArray(v)
        => IF HasKey(v, "_id")
           THEN ResolvedTo(1, Lookup(v, "_id"))
           ELSE FailedWith(1, MissingIdentifier)

\* C9 for the runs whose exception did not escape the try of _seed.
C9_WhenCaught ==
    LET v == PathValue(stores[result], CursorPath(1))
    IN  AtReference(1) /\ isObject(v) /\ ~isArray(v) /\ status[1] # "uncaught"
        => IF HasKey(v, "_id")
           THEN ResolvedTo(1, Lookup(v, "_id"))
           ELSE FailedWith(1, MissingIdentifier)

(***************************************************************************)
(* C10: When the path of a reference ends on a scalar or on an array of a  *)
(* record created before, the reference resolves to that value unchanged.  *)
(***************************************************************************)
C10_ScalarOrArrayVerbatim ==
    LET v == PathValue(stores[result], CursorPath(1))
    IN  AtReference(1) /\ (IsScalar(v) \/ isArray(v))
        => ResolvedTo(1, v)

\* The create of teams.foo is outstanding with its reference to the hobbies
\* of users.foo resolved to the array of hobbies the created user holds.
C10_Witness ==
    /\ AtReference(1)
    /\ CursorGroup(1) = "teams"
    /\ DeclaredRef(CursorGroup(1), CursorKey(1)) = "->users.foo.hobbies"
    /\ \E op \in CursorCreates(1) :
           LET v == ResolvedRef(CursorGroup(1), CursorKey(1), op.doc)
           IN  isArray(v) /\ v = PathValue(stores[result], <<"users", "foo", "hobbies">>)

(***************************************************************************)
(* Expressions, as the caller declared them and as the run resolved them.  *)
(***************************************************************************)

\* The expression string record <<g, k>> declares in its field fullName, ""
\* if none.
DeclaredExpr(g, k) ==
    LET d == Lookup(Lookup(Lookup(callerData, g), k), "fullName")
    IN  IF d = Undef THEN "" ELSE d.s

\* The evaluation of the expression of record <<g, k>> throws, in the sandbox
\* the module refers to.
EvaluationFails(g, k) ==
    LET parent == Lookup(Lookup(callerData, g), k)
        ctx == objectAssign(Obj(<<Prop("_this", parent)>>), sandboxes[sandbox])
    IN  Thrown(runInContext(replaceThis(substr(DeclaredExpr(g, k), 1)), ctx))

\* The documents run r asked the backend to create for record <<g, k>>.
CreateDocs(r, g, k) ==
    {log[r][i].op.doc : i \in {j \in 1..Len(log[r]) :
        /\ IsRequest(log[r][j], "create")
        /\ GroupOf(r, log[r][j].op) = g
        /\ KeyOf(r, log[r][j].op) = k}}

\* Run r has resolved record <<g, k>>.
Resolved(r, g, k) ==
    /\ cursor[r] # <<0, 0>>
    /\ \E i \in 1..Len(DeclaredRecords) :
           /\ DeclaredRecords[i] = <<g, k>>
           /\ \E j \in i..Len(DeclaredRecords) :
                  DeclaredRecords[j] = <<CursorGroup(r), CursorKey(r)>>

(***************************************************************************)
(* C11: When the evaluation of an expression field fails, the field's      *)
(* resolved value is the original string with its leading "=", the record  *)
(* is still submitted to create, and the run reports no error because of   *)
(* it.                                                                     *)
(***************************************************************************)
C11_FailedExpressionKept ==
    \A i \in 1..Len(DeclaredRecords) :
        LET g == DeclaredRecords[i][1]
            k == DeclaredRecords[i][2]
        IN  /\ DeclaredExpr(g, k) # ""
            /\ Resolved(1, g, k)
            /\ EvaluationFails(g, k)
            => /\ CreateDocs(1, g, k) # {}
               /\ \A doc \in CreateDocs(1, g, k) :
                      Lookup(doc, "fullName") = Str(DeclaredExpr(g, k))
               /\ status[1] # "uncaught"
               /\ status[1] = "rejected" => promise[1].err = BackendOperationError

\* users.bar declares an expression that reads a property of undefined, is
\* created with the expression string as its value, and the run resolved.
C11_Witness ==
    /\ DeclaredExpr("users", "bar") = "=this.nosuch.x"
    /\ status[1] = "resolved"
    /\ \E doc \in db["users"] : Lookup(doc, "fullName") = Str("=this.nosuch.x")

(***************************************************************************)
(* The fatal errors of a run, read from the caller's fixture and the log.  *)
(***************************************************************************)

\* The backend reported the failure of a request of the given kind to run r.
BackendFailed(r, kind) ==
    \E i \in 1..Len(log[r]) : log[r][i].e = "failure" /\ log[r][i].op.kind = kind

\* _seed of run r has started on group g.
Started(r, g) == HasKey(stores[r], g)

\* The model marker group g declares.
DeclaredModel(g) == Lookup(Lookup(callerData, g), "_model")

\* A dependency the caller declared cannot be loaded.
UnknownDependency ==
    /\ HasKey(callerData, "_dependencies")
    /\ \E i \in 1..Len(Lookup(callerData, "_dependencies").p) :
           Lookup(callerData, "_dependencies").p[i].v.s \notin DOMAIN Modules

\* The fatal errors run r raised outside the resolution of a record are
\* reported: promise rejected and callback called with the error.
ReportsFatalErrors(r) ==
    /\ BackendFailed(r, "dropDatabase") \/ BackendFailed(r, "create")
       => FailedWith(r, BackendOperationError)
    /\ data[r] # Undef /\ UnknownDependency => FailedWith(r, DependencyNotFound)
    /\ \A i \in 1..Len(DeclaredGroups) :
           LET g == DeclaredGroups[i]
           IN  Started(r, g)
               => /\ Falsy(DeclaredModel(g)) => FailedWith(r, MissingModelError)
                  /\ ~Falsy(DeclaredModel(g)) /\ DeclaredModel(g).s \notin DOMAIN Models
                     => FailedWith(r, UnknownModelError)
    /\ status[r] = "rejected" => FailedWith(r, promise[r].err)

(***************************************************************************)
(* C12: Every fatal error of a run rejects the promise and calls the       *)
(* callback with that error, wherever it is raised: no error leaves the    *)
(* run without being reported.                                             *)
(***************************************************************************)
C12_FatalErrorsReported ==
    /\ ReportsFatalErrors(1)
    /\ uncaught[1] = ""

\* C12 for the errors raised outside the resolution of a record.
C12_ReportedOutsideResolution == ReportsFatalErrors(1)

\* C12 for the errors of the resolution of the first record key of a group,
\* when no collection drop precedes it.
C12_FirstKeyReported ==
    /\ cursor[1] # <<0, 0>> /\ cursor[1][2] = 1
    /\ Lookup(options, "dropCollections") # Bool(TRUE)
    => uncaught[1] = ""

(***************************************************************************)
(* C13: Every run eventually settles when the backend calls back for every *)
(* request. A run makes a step only when the backend calls back, and each  *)
(* step extends its log, which the fixture bounds; so the run settles if   *)
(* and only if, as long as its promise is pending, a request of it is      *)
(* outstanding for the backend to call back.                               *)
(***************************************************************************)
C13_SettlesOrWaits ==
    status[1] # "idle" /\ promise[1].state = "pending" => pending[1] # {}

\* C13 for the runs no exception escapes from.
C13_WaitsUnlessEscaped ==
    /\ status[1] # "idle"
    /\ promise[1].state = "pending"
    /\ status[1] # "uncaught"
    => pending[1] # {}

\* The log of a run grows with every step of it.
C13_LogGrows ==
    [][\A r \in Runs : Len(log'[r]) >= Len(log[r])
                       /\ (pending'[r] # pending[r] => Len(log'[r]) > Len(log[r]))]_vars

(***************************************************************************)
(* C14: The promise of a run is settled once and its callback is invoked   *)
(* once, either with the error or with the result: a completed run has     *)
(* exactly one callback invocation, which agrees with the promise, a run   *)
(* that is not completed has none, and what is settled never changes.      *)
(***************************************************************************)
C14_Outcome(r) ==
    /\ Len(callbacks[r]) <= 1
    /\ promise[r].state = "pending" <=> callbacks[r] = <<>>
    /\ promise[r].state = "pending" <=> status[r] \notin {"resolved", "rejected"}
    /\ promise[r].state = "fulfilled"
       => callbacks[r] = <<[err |-> "", value |-> promise[r].value]>> /\ promise[r].err = ""
    /\ promise[r].state = "rejected"
       => callbacks[r] = <<[err |-> promise[r].err, value |-> 0]>> /\ promise[r].err # ""

C17_DatabaseDropFailureAborts ==
    BackendFailed(1, "dropDatabase")
    => /\ log[1] = <<[e |-> "request", op |-> DropDatabaseOp],
                     [e |-> "failure", op |-> DropDatabaseOp]>>
       /\ pending[1] = {}
       /\ FailedWith(1, BackendOperationError)
       /\ sandboxes[sandbox] = Obj(<<>>)
       /\ stores[result] = Obj(<<>>)
       /\ data[1] = Undef
       /\ cursor[1] = <<0, 0>>

\* The database drop failed for a fixture that declares a dependency that can
\* be loaded and one that cannot: the run ends with the backend's error.
C17_Witness ==
    /\ UnknownDependency
    /\ BackendFailed(1, "dropDatabase")
    /\ FailedWith(1, BackendOperationError)

(***************************************************************************)
(* The drops a run requested.                                              *)
(***************************************************************************)

\* The requests of the given kind run r made, in order.
Requests(r, kind) == SelectSeq(log[r], LAMBDA ev : IsRequest(ev, kind))

\* The collections of the groups the caller declared with a registered model.
SeededCollections ==
    {Models[DeclaredModel(DeclaredGroups[i]).s] :
        i \in {j \in 1..Len(DeclaredGroups) :
                 /\ ~Falsy(DeclaredModel(DeclaredGroups[j]))
                 /\ DeclaredModel(DeclaredGroups[j]).s \in DOMAIN Models}}

(***************************************************************************)
(* C18: dropDatabase and dropCollections are never both in effect in a     *)
(* run: when dropCollections is given as true, with dropDatabase true or   *)
(* left at its default, the database drop is never requested and only      *)
(* collections of seeded groups are dropped.                               *)
(***************************************************************************)
C18_DropCollectionsWins ==
    status[1] # "idle"
    => /\ ~(Lookup(options, "dropDatabase") = Bool(TRUE)
            /\ Lookup(options, "dropCollections") = Bool(TRUE))
       /\ Requests(1, "dropDatabase") = <<>> \/ Requests(1, "dropCollection") = <<>>
       /\ Lookup(given[1], "dropCollections") = Bool(TRUE)
          => /\ Requests(1, "dropDatabase") = <<>>
             /\ Lookup(options, "dropCollections") = Bool(TRUE)
             /\ \A i \in 1..Len(Requests(1, "dropCollection")) :
                    Requests(1, "dropCollection")[i].op.name \in SeededCollections

\* Both options were given as true: the run dropped the collection of users,
\* never the database, and resolved.
C18_Witness ==
    /\ given[1] = Obj(<<Prop("dropDatabase", Bool(TRUE)), Prop("dropCollections", Bool(TRUE))>>)
    /\ status[1] = "resolved"
    /\ Requests(1, "dropDatabase") = <<>>
    /\ \E i \in 1..Len(Requests(1, "dropCollection")) :
           Requests(1, "dropCollection")[i].op.name = "users"

(***************************************************************************)
(* C19: With no options given, or dropDatabase true and dropCollections    *)
(* not true, a run requests the database drop exactly once, the drop has   *)
(* completed before any create of the run is issued, and no collection     *)
(* drop is requested.                                                      *)
(***************************************************************************)
C19_DatabaseDroppedFirst ==
    /\ status[1] # "idle"
    /\ Lookup(given[1], "dropDatabase") \in {Undef, Bool(TRUE)}
    /\ Lookup(given[1], "dropCollections") # Bool(TRUE)
    => /\ Len(Requests(1, "dropDatabase")) = 1
       /\ log[1][1] = [e |-> "request", op |-> DropDatabaseOp]
       /\ Requests(1, "dropCollection") = <<>>
       /\ \A j \in 1..Len(log[1]) :
              IsRequest(log[1][j], "create")
              => j > 2 /\ log[1][2] = [e |-> "success", op |-> DropDatabaseOp]

\* No options given: the database was dropped, then users.foo and users.bar
\* were created, and the run resolved.
C19_Witness ==
    /\ given[1] = Obj(<<>>)
    /\ status[1] = "resolved"
    /\ Len(log[1]) >= 6
    /\ log[1][2] = [e |-> "success", op |-> DropDatabaseOp]
    /\ Len(CreateRequests(1)) >= 2

(***************************************************************************)
(* C20: With dropDatabase false and dropCollections not true a run         *)
(* requests no drop of any kind, so records accumulate: after two runs in  *)
(* a row that both resolved, every collection holds what it held before    *)
(* plus the documents both runs created in it.                             *)
(***************************************************************************)
NoDropGiven(r) ==
    /\ Lookup(given[r], "dropDatabase") = Bool(FALSE)
    /\ Lookup(given[r], "dropCollections") # Bool(TRUE)

\* The number of creates of run r in collection c that succeeded.
CreatedIn(r, c) ==
    Cardinality({i \in 1..Len(log[r]) :
        log[r][i].e = "success" /\ log[r][i].op.kind = "create" /\ log[r][i].op.name = c})

RECURSIVE TotalCreatedIn(_, _)
\* The number of creates of the runs 1..n in collection c that succeeded.
TotalCreatedIn(n, c) == IF n = 0 THEN 0 ELSE CreatedIn(n, c) + TotalCreatedIn(n - 1, c)

\* C20: no drop is requested by a run that was told not to drop, and when no
\* run was told to drop, after two resolved runs the collections hold what
\* they held before plus what the runs created.
C20_NoDropAccumulates ==
    /\ \A r \in Runs :
           status[r] # "idle" /\ NoDropGiven(r)
           => Requests(r, "dropDatabase") = <<>> /\ Requests(r, "dropCollection") = <<>>
    /\ (/\ \A r \in Runs : status[r] # "idle" => NoDropGiven(r)
        /\ \A r \in 1..2 : status[r] = "resolved")
       => \A c \in Collections :
              /\ InitialDb[c] \subseteq db[c]
              /\ Cardinality(db[c]) = Cardinality(InitialDb[c]) + TotalCreatedIn(MaxRuns, c)

\* Two runs without drops resolved, each having created two users: the
\* collection holds the document it held before and the four new ones.
C20_Witness ==
    /\ \A r \in 1..2 : status[r] = "resolved" /\ NoDropGiven(r)
    /\ CreatedIn(1, "users") = 2
    /\ CreatedIn(2, "users") = 2
    /\ Cardinality(db["users"]) = 5

(***************************************************************************)
(* The records a run delivered.                                            *)
(***************************************************************************)

\* The documents a result store holds, whatever group and key they are under.
RecordsIn(store) ==
    UNION {{Lookup(Lookup(store, g), k) : k \in Range(Keys(Lookup(store, g)))} :
             g \in Range(Keys(store))}

\* The result store delivered to the caller of run r.
Delivered(r) == stores[promise[r].value]

\* The options run r was given are, defaulted, the default options.
DefaultOptionsGiven(r) == EffectiveOptions(given[r]) = DEFAULT_OPTIONS

(***************************************************************************)
(* C21: With default options, when seed() is called again after the run    *)
(* before has settled, the new run starts from an emptied backend: it      *)
(* requests the database drop first, from the drop on every collection     *)
(* holds exactly the documents the new run created, and when it has        *)
(* resolved its result holds, under the declared groups and keys, exactly  *)
(* those documents and none of an earlier run's result.                    *)
(***************************************************************************)
C21_SecondRunStartsEmpty ==
    \A r \in Runs \ {1} :
        /\ DefaultOptionsGiven(r)
        /\ status[r] # "idle"
        /\ \A q \in Runs : q > r => status[q] = "idle"
        => /\ \A q \in 1..(r - 1) : Completed(q)
           /\ Len(log[r]) > 0
           /\ Head(log[r]) = [e |-> "request", op |-> DropDatabaseOp]
           /\ Len(log[r]) > 1
              => \/ log[r] = <<log[r][1], [e |-> "failure", op |-> DropDatabaseOp]>>
                 \/ /\ log[r][2] = [e |-> "success", op |-> DropDatabaseOp]
                    /\ \A c \in Collections : Cardinality(db[c]) = CreatedIn(r, c)
           /\ status[r] = "resolved"
              => /\ promise[r].state = "fulfilled"
                 /\ Keys(Delivered(r)) = DeclaredGroups
                 /\ \A i \in 1..Len(DeclaredGroups) :
                        Keys(Lookup(Delivered(r), DeclaredGroups[i]))
                            = DeclaredKeys(DeclaredGroups[i])
                 /\ RecordsIn(Delivered(r)) = UNION {db[c] : c \in Collections}
                 /\ \A q \in 1..(r - 1) :
                        RecordsIn(Delivered(r)) \cap RecordsIn(stores[q]) = {}

\* Two runs with default options resolved one after the other, each having
\* created two users and a team: the backend holds the three documents of the
\* second run, which are those of its result.
C21_Witness ==
    /\ DefaultOptionsGiven(1) /\ DefaultOptionsGiven(2)
    /\ status[1] = "resolved" /\ status[2] = "resolved"
    /\ CreatedIn(1, "users") = 2 /\ CreatedIn(1, "teams") = 1
    /\ Cardinality(db["users"]) = 2 /\ Cardinality(db["teams"]) = 1
    /\ Cardinality(RecordsIn(stores[1])) = 3
    /\ RecordsIn(Delivered(2)) = db["users"] \cup db["teams"]

\* The collection that backs the model group number g of run r names.
CollectionOf(g) == Models[DeclaredModel(DeclaredGroups[g]).s]

\* Group number g declares a model the backend knows.
HasRegisteredModel(g) ==
    /\ ~Falsy(DeclaredModel(DeclaredGroups[g]))
    /\ DeclaredModel(DeclaredGroups[g]).s \in DOMAIN Models

\* The positions of the log of run r where the drop of the collection of
\* group number g is requested.
DropRequests(r, g) ==
    {i \in 1..Len(log[r]) : IsRequest(log[r][i], "dropCollection") /\ log[r][i].op.g = g}

(***************************************************************************)
(* C22: Under dropCollections, for every group the run starts on and whose *)
(* model is registered the drop of that model's collection (whatever the   *)
(* group is called) is requested once, it has called back before the first *)
(* create of the group is requested, and only collections of seeded groups *)
(* are dropped.                                                            *)
(***************************************************************************)
C22_CollectionDroppedFirst ==
    status[1] # "idle" /\ Lookup(given[1], "dropCollections") = Bool(TRUE)
    => /\ \A g \in 1..Len(DeclaredGroups) :
              Started(1, DeclaredGroups[g]) /\ HasRegisteredModel(g)
              => /\ Cardinality(DropRequests(1, g)) = 1
                 /\ \A i \in DropRequests(1, g) : log[1][i].op.name = CollectionOf(g)
       /\ \A j \in 1..Len(log[1]) :
              IsRequest(log[1][j], "create")
              => \E i \in DropRequests(1, log[1][j].op.g) :
                     /\ i < j
                     /\ log[1][i].op.name = log[1][j].op.name
                     /\ CalledBackBetween(1, i, j)
       /\ \A i \in 1..Len(log[1]) :
              IsRequest(log[1][i], "dropCollection")
              => log[1][i].op.name \in SeededCollections

\* The group users declares the model Team: the collection teams was dropped,
\* then users.foo was created in it, and the collection users was never
\* dropped.
C22_Witness ==
    /\ Lookup(given[1], "dropCollections") = Bool(TRUE)
    /\ DeclaredGroups = <<"users">>
    /\ DeclaredModel("users") = Str("Team")
    /\ status[1] = "resolved"
    /\ \E i \in DropRequests(1, 1) : log[1][i].op.name = "teams"
    /\ \A i \in 1..Len(log[1]) : log[1][i].op.name # "users"
    /\ Cardinality(db["teams"]) = 1

(***************************************************************************)
(* C23: seed() never changes the object the caller passes: no step of a    *)
(* run, whether it ends in success or in failure, changes what the         *)
(* caller's object holds (model markers, dependency declaration, reference *)
(* and expression strings), while the object _seed works on is a copy that *)
(* loses them.                                                             *)
(***************************************************************************)
C23_CallerDataUntouched ==
    /\ [][callerData' = callerData]_vars
    /\ [](\A r \in Runs : held[r] # "caller")

\* A run resolved on a fixture that declares dependencies and two groups: the
\* copy _seed worked on has lost the dependency declaration and the model
\* markers, the caller's object holds them.
C23_Witness ==
    /\ status[1] = "resolved"
    /\ held[1] = "copy"
    /\ HasKey(callerData, "_dependencies") /\ ~HasKey(data[1], "_dependencies")
    /\ Len(DeclaredGroups) = 2
    /\ \A i \in 1..2 :
           /\ HasKey(Lookup(callerData, DeclaredGroups[i]), "_model")
           /\ ~HasKey(Lookup(data[1], DeclaredGroups[i]), "_model")

(***************************************************************************)
(* C24: A group without its model marker fails the run: no create is ever  *)
(* requested for that group or a group declared after it, and when the run *)
(* starts on the group it ends with the missing-model error, nothing being *)
(* outstanding.                                                            *)
(***************************************************************************)
C24_MissingModelFails ==
    \A g \in 1..Len(DeclaredGroups) :
        Falsy(DeclaredModel(DeclaredGroups[g]))
        => /\ \A j \in 1..Len(log[1]) :
                  IsRequest(log[1][j], "create") => log[1][j].op.g < g
           /\ Started(1, DeclaredGroups[g])
              => /\ FailedWith(1, MissingModelError)
                 /\ pending[1] = {}

\* users was seeded with two records, teams declares records but no model
\* marker: the run is rejected and nothing was created for teams.
C24_Witness ==
    /\ Len(DeclaredGroups) = 2
    /\ DeclaredModel("teams") = Undef
    /\ Len(DeclaredKeys("teams")) = 2
    /\ Started(1, "teams")
    /\ FailedWith(1, MissingModelError)
    /\ Len(CreateRequests(1)) = 2
    /\ db["teams"] = {}

(***************************************************************************)
(* C25: A group whose model marker names a model the backend does not know *)
(* fails the run: no collection drop and no create is ever requested for   *)
(* that group or a group declared after it, and when the run starts on the *)
(* group it ends with the unknown-model error, nothing being outstanding.  *)
(***************************************************************************)
C25_UnknownModelFails ==
    \A g \in 1..Len(DeclaredGroups) :
        /\ ~Falsy(DeclaredModel(DeclaredGroups[g]))
        /\ DeclaredModel(DeclaredGroups[g]).s \notin DOMAIN Models
        => /\ \A j \in 1..Len(log[1]) :
                  IsRequest(log[1][j], "create") \/ IsRequest(log[1][j], "dropCollection")
                  => log[1][j].op.g < g
           /\ Started(1, DeclaredGroups[g])
              => /\ FailedWith(1, UnknownModelError)
                 /\ pending[1] = {}

\* Under dropCollections users was dropped and seeded, teams names the model
\* Users: the run is rejected, and teams was neither dropped nor seeded.
C25_Witness ==
    /\ Lookup(given[1], "dropCollections") = Bool(TRUE)
    /\ Len(DeclaredGroups) = 2
    /\ DeclaredModel("teams") = Str("Users")
    /\ Len(DeclaredKeys("teams")) > 0
    /\ Started(1, "teams")
    /\ FailedWith(1, UnknownModelError)
    /\ Len(Requests(1, "dropCollection")) = 1
    /\ Len(CreateRequests(1)) = 2

(***************************************************************************)
(* C26: When a declared dependency cannot be loaded, the run requests      *)
(* nothing from the backend but the database drop, and once _seed has been *)
(* called it has ended with the loader's MODULE_NOT_FOUND error before any *)
(* group is processed: no result entry is made, no model marker is         *)
(* stripped, no record is resolved and nothing is outstanding.             *)
(***************************************************************************)
C26_UnknownDependencyFails ==
    UnknownDependency
    => /\ \A j \in 1..Len(log[1]) : log[1][j].op = DropDatabaseOp
       /\ data[1] # Undef
          => /\ FailedWith(1, DependencyNotFound)
             /\ promise[1].err = "MODULE_NOT_FOUND"
             /\ pending[1] = {}
             /\ data[1] = callerData
             /\ stores[1] = Obj(<<>>)
             /\ cursor[1] = <<0, 0>>

\* The fixture declares moment, which is loaded, and unknown, which cannot
\* be, ahead of two groups with records: the database was dropped, moment is
\* bound in the sandbox and the run is rejected with nothing created.
C26_Witness ==
    /\ UnknownDependency
    /\ Len(DeclaredRecords) = 4
    /\ log[1] = <<[e |-> "request", op |-> DropDatabaseOp],
                  [e |-> "success", op |-> DropDatabaseOp]>>
    /\ HasKey(sandboxes[1], "moment")
    /\ FailedWith(1, DependencyNotFound)

(***************************************************************************)
(* Dependencies, as the caller declared them.                              *)
(***************************************************************************)

\* The dependency declaration of the caller: alias and module name pairs.
DeclaredDependencies ==
    IF HasKey(callerData, "_dependencies") THEN Lookup(callerData, "_dependencies").p ELSE <<>>

\* The module the caller declared under the alias.
DeclaredModule(alias) == Modules[Lookup(Lookup(callerData, "_dependencies"), alias).s]

(***************************************************************************)
(* C27: Loading the dependencies binds the aliases in the sandbox of the   *)
(* run and nowhere else: no step of a run creates or changes a binding of  *)
(* the global object of the process; once _seed has loaded them, every     *)
(* declared alias is bound to its module in the run's sandbox; and every   *)
(* resolved record whose expression is the alias has the module as the     *)
(* value of that field.                                                    *)
(***************************************************************************)
C27_AliasesInSandboxOnly ==
    /\ [][global' = global]_vars
    /\ [](/\ global = Obj(<<>>)
          /\ data[1] # Undef /\ ~UnknownDependency
             => /\ Keys(sandboxes[1]) = [i \in 1..Len(DeclaredDependencies) |->
                                            DeclaredDependencies[i].k]
                /\ \A i \in 1..Len(DeclaredDependencies) :
                       Lookup(sandboxes[1], DeclaredDependencies[i].k)
                           = DeclaredModule(DeclaredDependencies[i].k)
                /\ \A i \in 1..Len(DeclaredRecords) :
                       LET g == DeclaredRecords[i][1]
                           k == DeclaredRecords[i][2]
                       IN  /\ DeclaredExpr(g, k) # ""
                           /\ HasKey(sandboxes[1], substr(DeclaredExpr(g, k), 1))
                           /\ Resolved(1, g, k)
                           => /\ CreateDocs(1, g, k) # {}
                              /\ \A doc \in CreateDocs(1, g, k) :
                                     Lookup(doc, "fullName")
                                         = DeclaredModule(substr(DeclaredExpr(g, k), 1)))

\* The fixture declares the alias moment and teams.bar is the expression
\* "=moment": the run resolved, teams.bar was created with the module as its
\* value, and the global object has no binding.
C27_Witness ==
    /\ HasKey(sandboxes[1], "moment")
    /\ DeclaredExpr("teams", "bar") = "=moment"
    /\ status[1] = "resolved"
    /\ \E doc \in db["teams"] : Lookup(doc, "fullName") = Modules["moment"]
    /\ global = Obj(<<>>)

(***************************************************************************)
(* C28: When runs overlap, each run's result store is its own: the result  *)
(* delivered for a run is the store made for that run and holds exactly    *)
(* the documents created for that run, none created for another run.       *)
(***************************************************************************)
C28_OwnResultStore ==
    \A r \in Runs :
        status[r] = "resolved"
        => /\ promise[r].value = r
           /\ RecordsIn(Delivered(r)) = made[r]

\* C28 for the entries of a store: none is lost or replaced, and the store of
\* a run changes only in a step of that run.
C28_EntriesKept ==
    [][\A r \in Runs :
          /\ stores'[r] # stores[r] => log'[r] # log[r] \/ status'[r] # status[r]
          /\ RecordsIn(stores[r]) \subseteq RecordsIn(stores'[r])]_vars

\* The drop policy applied to the groups of run r is the one the run was
\* given: under dropCollections every create follows the drop of its group's
\* collection, otherwise no collection is dropped.
KeepsDropPolicy(r) ==
    IF Lookup(given[r], "dropCollections") = Bool(TRUE)
    THEN \A j \in 1..Len(log[r]) :
             IsRequest(log[r][j], "create")
             => \E i \in DropRequests(r, log[r][j].op.g) : i < j /\ CalledBackBetween(r, i, j)
    ELSE Requests(r, "dropCollection") = <<>>

\* The expressions of run r see the aliases the run declared: a resolved
\* record whose expression is a declared alias that can be loaded has the
\* module as the value of the field.
SeesOwnAliases(r) ==
    \A i \in 1..Len(DeclaredRecords) :
        LET g == DeclaredRecords[i][1]
            k == DeclaredRecords[i][2]
        IN  /\ DeclaredExpr(g, k) # ""
            /\ ~UnknownDependency
            /\ HasKey(callerData, "_dependencies")
            /\ HasKey(Lookup(callerData, "_dependencies"), substr(DeclaredExpr(g, k), 1))
            => \A doc \in CreateDocs(r, g, k) :
                   Lookup(doc, "fullName") = DeclaredModule(substr(DeclaredExpr(g, k), 1))

(***************************************************************************)
(* C29: The options and the sandbox of a run are those of its own seed()   *)
(* call, whatever other call is made while it is in flight: the drop       *)
(* policy applied to each of its groups is the one it was given, and its   *)
(* expressions see the aliases it declared.                                *)
(***************************************************************************)
C29_OwnOptionsAndSandbox ==
    \A r \in Runs : status[r] # "idle" => KeepsDropPolicy(r) /\ SeesOwnAliases(r)

\* C29 for the drop policy.
C29_OwnOptions == \A r \in Runs : status[r] # "idle" => KeepsDropPolicy(r)

\* C29 for the sandbox.
C29_OwnSandbox == \A r \in Runs : status[r] # "idle" => SeesOwnAliases(r)

\* The declared value of a field of record <<g, k>>.
DeclaredField(g, k, f) == Lookup(Lookup(Lookup(callerData, g), k), f)

\* What the expression of record <<g, k>> is to evaluate to: 2 for "=1+1",
\* the two sibling fields joined by a blank for the concatenation, the module
\* for a declared alias; Undef for the other expressions.
ExpectedValue(g, k) ==
    LET e == DeclaredExpr(g, k)
    IN  CASE e = "=1+1" -> Num(2)
          [] e = "=this.email + ' ' + this.name" ->
                Str(DeclaredField(g, k, "email").s \o " " \o DeclaredField(g, k, "name").s)
          [] e = "=moment" /\ HasKey(callerData, "_dependencies") ->
                DeclaredModule("moment")
          [] OTHER -> Undef

(***************************************************************************)
(* C30: An expression field resolves to the value of its text, with this.  *)
(* standing for the enclosing record as declared and the aliases of the    *)
(* run visible by name: "=1+1" becomes 2, the concatenation of two sibling *)
(* fields becomes their declared values joined, and a declared alias       *)
(* becomes its module, for every record that is resolved.                  *)
(***************************************************************************)
C30_ExpressionValue ==
    \A i \in 1..Len(DeclaredRecords) :
        LET g == DeclaredRecords[i][1]
            k == DeclaredRecords[i][2]
        IN  /\ DeclaredExpr(g, k) # ""
            /\ ExpectedValue(g, k) # Undef
            /\ ~UnknownDependency
            /\ Resolved(1, g, k)
            => /\ CreateDocs(1, g, k) # {}
               /\ \A doc \in CreateDocs(1, g, k) :
                      /\ Lookup(doc, "fullName") = ExpectedValue(g, k)
                      /\ \A f \in {"email", "name"} : Lookup(doc, f) = DeclaredField(g, k, f)

\* teams.bar declares the concatenation of its email and name and was created
\* with "bar@teams Bar"; the run resolved.
C30_Witness ==
    /\ DeclaredExpr("teams", "bar") = "=this.email + ' ' + this.name"
    /\ status[1] = "resolved"
    /\ \E doc \in db["teams"] : Lookup(doc, "fullName") = Str("bar@teams Bar")

\* users.foo declares "=1+1" and was created with the number 2.
C30_WitnessSum ==
    /\ DeclaredExpr("users", "foo") = "=1+1"
    /\ \E doc \in db["users"] : Lookup(doc, "fullName") = Num(2)

\* The sibling field that the expression of record <<g, k>> reads: "ref" for
\* "=this.ref", "sum" for "=this.sum", "" for the other expressions.
SiblingRead(g, k) ==
    CASE DeclaredExpr(g, k) = "=this.ref" -> "ref"
      [] DeclaredExpr(g, k) = "=this.sum" -> "sum"
      [] OTHER -> ""

\* The place of field f in the key order of record <<g, k>> as declared; 0 if
\* the record has no such field.
PlaceOf(g, k, f) ==
    LET ks == Keys(Lookup(Lookup(callerData, g), k))
    IN  IF \E i \in 1..Len(ks) : ks[i] = f
        THEN CHOOSE i \in 1..Len(ks) : ks[i] = f
        ELSE 0

\* Record <<g, k>> declares an expression that reads a sibling which is a
\* reference or an expression itself and is declared after the expression.
ReadsLaterSibling(g, k) ==
    /\ SiblingRead(g, k) # ""
    /\ PlaceOf(g, k, SiblingRead(g, k)) > PlaceOf(g, k, "fullName")

(***************************************************************************)
(* C31: An expression that reads a sibling field declared after it in the  *)
(* key order of the record gets the sibling as declared, its reference or  *)
(* expression text, and not what the sibling resolves to: every document   *)
(* passed to create for such a record has the text of the sibling in the   *)
(* expression field.                                                       *)
(***************************************************************************)
C31_LaterSiblingUnresolved ==
    \A i \in 1..Len(DeclaredRecords) :
        LET g == DeclaredRecords[i][1]
            k == DeclaredRecords[i][2]
        IN  ReadsLaterSibling(g, k)
            => \A doc \in CreateDocs(1, g, k) :
                   /\ Lookup(doc, "fullName") = DeclaredField(g, k, SiblingRead(g, k))
                   /\ isString(Lookup(doc, "fullName"))

\* users.bar declares fullName "=this.ref" before ref "->users.foo"; it was
\* created with the text "->users.foo" as fullName and the stored users.foo
\* as ref.
C31_Witness ==
    /\ ReadsLaterSibling("users", "bar")
    /\ \E doc \in db["users"] :
           /\ Lookup(doc, "fullName") = Str("->users.foo")
           /\ Lookup(doc, "ref") # Str("->users.foo")
           /\ Lookup(doc, "ref") # Undef

\* teams.foo declares fullName "=this.sum" before sum "=1+1"; it was created
\* with the text "=1+1" as fullName and the number 2 as sum.
C31_WitnessExpression ==
    /\ ReadsLaterSibling("teams", "foo")
    /\ \E doc \in db["teams"] :
           /\ Lookup(doc, "fullName") = Str("=1+1")
           /\ Lookup(doc, "sum") = Num(2)

\* Record <<g, k>> declares an expression that reads a sibling which is a
\* reference or an expression itself and is declared before the expression.
ReadsEarlierSibling(g, k) ==
    /\ SiblingRead(g, k) # ""
    /\ PlaceOf(g, k, SiblingRead(g, k)) > 0
    /\ PlaceOf(g, k, SiblingRead(g, k)) < PlaceOf(g, k, "fullName")

(***************************************************************************)
(* C38: An expression reads the record as declared, whatever the place of  *)
(* the sibling it reads: a sibling declared before the expression, whose   *)
(* reference or expression is resolved first, is seen with its text as     *)
(* well, while the document passed to create carries the resolved value in *)
(* the field of the sibling itself.                                        *)
(***************************************************************************)
C38_EverySiblingUnresolved ==
    \A i \in 1..Len(DeclaredRecords) :
        LET g == DeclaredRecords[i][1]
            k == DeclaredRecords[i][2]
            f == SiblingRead(g, k)
        IN  f # ""
            => \A doc \in CreateDocs(1, g, k) :
                   /\ Lookup(doc, "fullName") = DeclaredField(g, k, f)
                   /\ Lookup(doc, f) # DeclaredField(g, k, f)
                   /\ Keys(doc) = Keys(Lookup(Lookup(callerData, g), k))

\* users.bar declares ref "->users.foo" before fullName "=this.ref"; it was
\* created with the stored users.foo as ref and the text "->users.foo" as
\* fullName.
C38_Witness ==
    /\ ReadsEarlierSibling("users", "bar")
    /\ \E doc \in db["users"] :
           /\ Lookup(doc, "fullName") = Str("->users.foo")
           /\ Lookup(doc, "ref") # Str("->users.foo")
           /\ Lookup(doc, "ref") # Undef

\* teams.foo declares sum "=1+1" before fullName "=this.sum"; it was created
\* with the number 2 as sum and the text "=1+1" as fullName.
C38_WitnessExpression ==
    /\ ReadsEarlierSibling("teams", "foo")
    /\ \E doc \in db["teams"] :
           /\ Lookup(doc, "fullName") = Str("=1+1")
           /\ Lookup(doc, "sum") = Num(2)

\* A string that _parseValue takes for an expression or a reference.
IsMarked(v) == isString(v) /\ (StartsWith(v.s, "=") \/ StartsWith(v.s, "->"))

RECURSIVE HasMarked(_)
\* The declared value v holds an expression or reference string at any depth.
HasMarked(v) ==
    IF isPlainObject(v) THEN \E i \in 1..Len(v.p) : HasMarked(v.p[i].v)
    ELSE IF isArray(v) THEN \E i \in 1..Len(v.a) : HasMarked(v.a[i])
    ELSE IsMarked(v)

RECURSIVE SameShape(_, _)
\* The value v has the shape of the declared value d: a mapping with the
\* keys of d in their order, a sequence of the length of d, either with
\* members of the shape of the members of d; any value in the place of an
\* expression or reference string; d itself in the place of anything else.
SameShape(d, v) ==
    IF isPlainObject(d)
    THEN /\ isPlainObject(v)
         /\ Keys(v) = Keys(d)
         /\ \A i \in 1..Len(d.p) : SameShape(d.p[i].v, v.p[i].v)
    ELSE IF isArray(d)
    THEN /\ isArray(v)
         /\ Len(v.a) = Len(d.a)
         /\ \A i \in 1..Len(d.a) : SameShape(d.a[i], v.a[i])
    ELSE IsMarked(d) \/ v = d

\* The identifier of the entry users.foo of the result store in use, which
\* is what the reference "->users.foo" resolves to.
StoredUsersFoo == Lookup(Lookup(Lookup(stores[result], "users"), "foo"), "_id")

(***************************************************************************)
(* C32: The document passed to create has the shape of the declared        *)
(* record: nested mappings keep their keys, sequences their length and the *)
(* order of their elements, and what is no expression or reference string  *)
(* is passed as declared; the members of a sequence and of a nested        *)
(* mapping are resolved each on its own (the reference to the identifier   *)
(* of users.foo, "=1+1" to 2, the plain string to itself); and a record       *)
(* without any expression or reference string is passed equal to the       *)
(* declared record.                                                        *)
(***************************************************************************)
C32_ShapeKept ==
    \A i \in 1..Len(DeclaredRecords) :
        LET g == DeclaredRecords[i][1]
            k == DeclaredRecords[i][2]
            d == Lookup(Lookup(callerData, g), k)
        IN  \A doc \in CreateDocs(1, g, k) :
                /\ SameShape(d, doc)
                /\ ~HasMarked(d) => doc = d
                /\ HasKey(d, "friends") =>
                       Lookup(doc, "friends") = Arr(<<StoredUsersFoo, Num(2), Str("reading")>>)
                /\ HasKey(d, "home") =>
                       Lookup(doc, "home") =
                           Obj(<<Prop("owner", StoredUsersFoo), Prop("sum", Num(2))>>)

\* teams.foo declares friends ["->users.foo", "=1+1", "reading"] and was
\* created with the identifier of the stored users.foo, 2 and "reading" in
\* that order, and with its hobbies and profile as declared.
C32_Witness ==
    /\ HasKey(Lookup(Lookup(callerData, "teams"), "foo"), "friends")
    /\ \E doc \in db["teams"] :
           /\ HasKey(doc, "friends")
           /\ Len(Lookup(doc, "friends").a) = 3
           /\ Lookup(doc, "friends").a[1] = StoredUsersFoo
           /\ StoredUsersFoo # Undef
           /\ Lookup(doc, "friends").a[2] = Num(2)
           /\ Lookup(doc, "hobbies") = Arr(<<Str("cycling"), Str("swimming")>>)
           /\ Lookup(doc, "profile") = Obj(<<Prop("city", Str("Ghent"))>>)

\* A record without any expression or reference string was created.
C32_WitnessPlain ==
    /\ ~HasMarked(Lookup(Lookup(callerData, "users"), "foo"))
    /\ CreateDocs(1, "users", "foo") # {}
    /\ status[1] = "resolved"

(***************************************************************************)
(* C33: A run that failed delivers no result store: its callback was       *)
(* called with an error and nothing else, its promise is rejected with     *)
(* that error and has no value, and the error is that of the backend when  *)
(* a create failed; this is so when the result store of the run holds      *)
(* groups and records already.                                             *)
(***************************************************************************)
C33_NoResultOnFailure ==
    status[1] = "rejected"
    => /\ promise[1].state = "rejected"
       /\ promise[1].err # ""
       /\ promise[1].value = 0
       /\ Len(callbacks[1]) = 1
       /\ callbacks[1][1].err = promise[1].err
       /\ callbacks[1][1].value = 0
       /\ BackendFailed(1, "create") => promise[1].err = BackendOperationError

\* The create of teams.foo failed after users.foo was stored in the result
\* store: the run is rejected and its store holds a group with a record.
C33_Witness ==
    /\ status[1] = "rejected"
    /\ BackendFailed(1, "create")
    /\ Lookup(Lookup(stores[1], "users"), "foo") # Undef
    /\ RecordsIn(stores[1]) # {}
    /\ callbacks[1] = <<[err |-> BackendOperationError, value |-> 0]>>

\* All documents the backend holds.
InBackend == UNION {db[c] : c \in Collections}

\* Two groups of the caller's data name the same registered model.
SharedModel ==
    \E i, j \in 1..Len(DeclaredGroups) :
        /\ i < j
        /\ HasRegisteredModel(i)
        /\ HasRegisteredModel(j)
        /\ CollectionOf(i) = CollectionOf(j)

(***************************************************************************)
(* C34: When the collections are dropped one by one, a run that succeeded  *)
(* has every record of the result it delivers in the backend: no           *)
(* collection drop of the run removed a record the run had created before, *)
(* also when two groups name the same model.                               *)
(***************************************************************************)
C34_CreatedSurviveDrops ==
    /\ status[1] = "resolved"
    /\ Len(Requests(1, "dropCollection")) > 0
    => /\ RecordsIn(Delivered(1)) \subseteq InBackend
       /\ made[1] \subseteq InBackend

\* The same for data whose groups name different models, where it holds.
C34_DistinctModelsSurvive == SharedModel \/ C34_CreatedSurviveDrops

\* The records the caller's object declared when seed() call r was made.
PassedRecords(r) ==
    UNION {{Lookup(Lookup(passed[r], g), k) :
              k \in Range(Keys(Lookup(passed[r], g))) \ {"_model"}} :
             g \in Range(Keys(passed[r]))}

(***************************************************************************)
(* C35: A run seeds the data as it was when seed() was called: every       *)
(* document passed to create is a record the caller's object declared at   *)
(* the call, whatever the caller writes into the object afterwards, also   *)
(* while the database drop of the run is pending.                          *)
(***************************************************************************)
C35_SeedsDataAsPassed ==
    \A r \in Runs : \A i \in 1..Len(log[r]) :
        IsRequest(log[r][i], "create") => log[r][i].op.doc \in PassedRecords(r)

\* The same for the runs that do not drop the database, where it holds: the
\* copy is taken before seed() returns.
C35_AsPassedWithoutDatabaseDrop ==
    \A r \in Runs : \A i \in 1..Len(log[r]) :
        /\ IsRequest(log[r][i], "create")
        /\ Len(Requests(r, "dropDatabase")) = 0
        => log[r][i].op.doc \in PassedRecords(r)

\* The caller wrote into its object after a seed() call that does not drop
\* the database, and the run created users.foo as it was passed.
C35_WitnessWithoutDatabaseDrop ==
    /\ callerData # passed[1]
    /\ Len(Requests(1, "dropDatabase")) = 0
    /\ \E doc \in db["users"] : Lookup(doc, "email") = Str("foo@users")

\* Run r drops the database: dropDatabase is true in its effective options.
DropsDatabase(r) == Lookup(EffectiveOptions(given[r]), "dropDatabase") = Bool(TRUE)

\* _seed of run r has run: the run has its data.
Seeding(r) == data[r] # Undef

(***************************************************************************)
(* C36: The dependencies of a run are resolved after its database drop has *)
(* succeeded and before any model is looked up: when _seed of a run that   *)
(* drops the database has run, the log of the run starts with the drop and *)
(* its success; a run with a dependency that cannot be loaded fails with   *)
(* the dependency error, also when a group lacks its model, without any    *)
(* group started and any other request made; and when such a run was given *)
(* the default options and no run was started after it, the database is    *)
(* empty.                                                                  *)
(***************************************************************************)
C36_DependenciesAfterDrop ==
    \A r \in Runs :
        /\ Seeding(r) /\ DropsDatabase(r)
           => /\ Len(log[r]) >= 2
              /\ log[r][1] = [e |-> "request", op |-> DropDatabaseOp]
              /\ log[r][2] = [e |-> "success", op |-> DropDatabaseOp]
        /\ Seeding(r) /\ UnknownDependency
           => /\ FailedWith(r, DependencyNotFound)
              /\ \A j \in 1..Len(log[r]) : log[r][j].op = DropDatabaseOp
              /\ stores[r] = Obj(<<>>)
        /\ /\ FailedWith(r, DependencyNotFound)
           /\ DefaultOptionsGiven(r)
           /\ \A q \in Runs : q > r => status[q] = "idle"
           => \A c \in Collections : db[c] = {}

\* The collection of users held a document; run 1, given the default
\* options, failed on the dependency unknown after its database drop
\* succeeded, and the collection is empty.
C36_Witness ==
    /\ FailedWith(1, DependencyNotFound)
    /\ DefaultOptionsGiven(1)
    /\ log[1] = <<[e |-> "request", op |-> DropDatabaseOp],
                  [e |-> "success", op |-> DropDatabaseOp]>>
    /\ db["users"] = {}
    /\ status[2] = "idle"

\* The same for data that lacks a model marker as well: the dependency error
\* is the one reported.
C36_WitnessUnmarked ==
    /\ callerData = UnloadableAndUnmarked
    /\ FailedWith(1, DependencyNotFound)
    /\ db["users"] = {}

\* Run r has a successful callback of a request of the given kind.
Succeeded(r, kind) ==
    \E i \in 1..Len(log[r]) : log[r][i].e = "success" /\ log[r][i].op.kind = kind

(***************************************************************************)
(* C37: A failure rolls nothing back and removes nothing else: when a run  *)
(* fails after creates of it have succeeded, the backend, empty before the *)
(* run, holds exactly the documents of those creates.                      *)
(***************************************************************************)
C37_CreatedRemainOnFailure ==
    status[1] = "rejected" /\ Succeeded(1, "create") => InBackend = made[1]

\* The same for data whose groups name different models, where it holds.
C37_DistinctModelsRemain == SharedModel \/ C37_CreatedRemainOnFailure

\* For runs that follow one another on a backend that held a document: the
\* last run started, when it failed, has left its creates next to what was
\* there, and what its database drop removed stays removed.
C37_DropStaysInEffect ==
    \A r \in Runs :
        /\ status[r] = "rejected"
        /\ \A q \in Runs : q > r => status[q] = "idle"
        => /\ made[r] \subseteq InBackend
           /\ Succeeded(r, "dropDatabase") => InBackend = made[r]

(***************************************************************************)
(* C39: The result a run delivered is left alone by the seed() calls made  *)
(* after the run has settled: no step changes the store a resolved run     *)
(* delivered or the settlement of the run, and a run started later works   *)
(* on a store of its own, which is not the one delivered earlier.          *)
(***************************************************************************)
C39_DeliveredResultKept ==
    /\ [][\A r \in Runs :
            status[r] = "resolved"
            => /\ promise'[r] = promise[r]
               /\ stores'[promise[r].value] = stores[promise[r].value]]_vars
    /\ [](\A r \in Runs : \A q \in Runs :
            /\ status[r] = "resolved"
            /\ q > r
            /\ status[q] # "idle"
            => /\ promise[r].value = r
               /\ result # r
               /\ promise[q].state = "fulfilled" => promise[q].value = q)

\* Two runs resolved one after the other, each with records in the store it
\* delivered, and no record of one store in the other.
C39_Witness ==
    /\ status[1] = "resolved"
    /\ status[2] = "resolved"
    /\ promise[1].value = 1
    /\ promise[2].value = 2
    /\ RecordsIn(stores[1]) # {}
    /\ RecordsIn(stores[2]) # {}
    /\ RecordsIn(stores[1]) \cap RecordsIn(stores[2]) = {}

\* The same where seed() may be called at any moment. The module refers to a
\* later store than the one run r delivered exactly when seed() was called
\* after r settled; from then on no step changes what r delivered.
C39_KeptAfterLaterCall ==
    [][\A r \in Runs :
          status[r] = "resolved" /\ result > promise[r].value
          => /\ promise'[r] = promise[r]
             /\ stores'[promise[r].value] = stores[promise[r].value]]_vars

====
